---- MODULE Spec2Model ----
(***************************************************************************)
(* A model of the nostr relay client (src/src/nostr/client.ts), its        *)
(* Channel (src/src/channel.ts) and the querySaved paging loop.            *)
(*                                                                         *)
(* Granularity: one action per event-loop turn.  A turn is a socket event  *)
(* (open, message, close), a call made by a caller (publish, query,        *)
(* close, next() or return() on a stream) or the wake-up of a send that    *)
(* was polling a CONNECTING socket.  The promise continuations a turn      *)
(* leaves ready (the await on a non-promise in #send, Future.resolved,     *)
(* awaitClosed().then, the resumption of publish after its Future          *)
(* settles) run before the next turn and are part of the action.           *)
(***************************************************************************)
EXTENDS Integers, Sequences, FiniteSets, TLC

\* ---------------------------------------------------------------- bounds
MaxMsgs == 2       \* relay messages injected in a run of Spec
MaxPubs == 2       \* publish()/tryPublish() calls in a run
MaxSubs == 2       \* query() calls in a run of Spec
MaxStored == 3     \* events the paging relay stores
MaxTs == 2         \* created_at values range over 1..MaxTs
MaxCap == 2        \* per-REQ cap of the paging relay
MaxLimit == 2      \* filter.limit values range over 0..MaxLimit
MaxPages == 4      \* REQs one querySaved may issue
MaxRogue == 4      \* messages a relay that ignores the filter may send
DateNow == 1000    \* Date.now() at the querySaved call
MaxSends == 3      \* send() calls on a Channel used on its own
MaxCloses == 2     \* close() calls on a Channel used on its own
MaxCount == 1      \* the largest count a COUNT message carries
MaxClients == 3    \* clients of a MultiClient
MaxCopyCalls == 4  \* calls of Collector.#tryPublish
MaxUses == 4       \* calls of Collector.#getClient
MaxFileSize == 3600     \* file sizes range over 0..MaxFileSize bytes
MinMessageSize == 1024  \* the smallest maxMessageSize
MaxSizeExtra == 3       \* maxMessageSize ranges over MinMessageSize..+MaxSizeExtra
MaxCloseCalls == 2      \* Client.close() calls on the connection of one subscription
MaxShuffled == 4        \* events the relay that delivers in any order stores
MaxShuffledTs == 3      \* their created_at values range over 1..MaxShuffledTs

\* ---------------------------------------------------------------- constants
Parallel == 3      \* workers of #copyEventRefs
EVENT_OVERHEAD == 345   \* JSON length of an event with no tags and no content
KindContents == 1064
KindMetadata == 1065
IdLength == 64     \* characters of an event id and of a SHA-256 in hex

MAX_SAFE_INTEGER == 2147483647  \* Number.MAX_SAFE_INTEGER, cut to TLC's int range

\* ---------------------------------------------------------------- strings
\* Relay messages are strings; startsWith needs their characters.
DuplicatePrefix == <<"d","u","p","l","i","c","a","t","e",":">>
DetailDuplicate == DuplicatePrefix \o <<" ","h","a","v","e">>
DetailShort == <<"d","u","p","l","i","c","a","t","e">>
DetailBlocked == <<"b","l","o","c","k","e","d",":">>
Details == {DetailDuplicate, DetailShort, DetailBlocked}

startsWith(s, prefix) ==
    /\ Len(s) >= Len(prefix)
    /\ SubSeq(s, 1, Len(prefix)) = prefix

\* (++this.#subID).toString() for the ids the model can reach
Digits == <<"1","2","3","4","5","6","7","8","9">>
toString(n) == Digits[n]
SubIds == {Digits[i] : i \in 1..Len(Digits)}
SubIndex(s) == CHOOSE i \in 1..Len(Digits) : Digits[i] = s

\* ---------------------------------------------------------------- events
EventIdPool == {"e1", "e2"}
StoreIds == <<"a", "b", "c", "d", "e">>
Event(id, t) == [id |-> id, created_at |-> t]
EventPool == {Event(i, 1) : i \in EventIdPool}

\* ---------------------------------------------------------------- relay -> client messages
MsgEvent(s, e) == [type |-> "EVENT", sub |-> s, event |-> e]
MsgEose(s) == [type |-> "EOSE", sub |-> s]
MsgClosed(s) == [type |-> "CLOSED", sub |-> s, message |-> DetailBlocked]
MsgOk(id, ok, d) == [type |-> "OK", id |-> id, accepted |-> ok, message |-> d]
MsgNotice == [type |-> "NOTICE", message |-> DetailBlocked]
MsgCount(s, c) == [type |-> "COUNT", sub |-> s, count |-> c]

NoSub == "null"
subscriptionId(m) ==
    IF m.type = "NOTICE" THEN NoSub
    ELSE IF m.type = "OK" THEN m.id
    ELSE m.sub

\* ---------------------------------------------------------------- client -> relay frames
NoFilter == [hasLimit |-> FALSE, limit |-> 0, hasUntil |-> FALSE, until |-> 0]
FrameReq(s, f) == [type |-> "REQ", sub |-> s, filter |-> f]
FrameClose(s) == [type |-> "CLOSE", sub |-> s]
FrameEvent(e) == [type |-> "EVENT", event |-> e]
FrameCount(s, f) == [type |-> "COUNT", sub |-> s, filter |-> f]

VARIABLES
    wsState,       \* WebSocket.readyState
    closed,        \* Client.#closed
    listeners,     \* Client.#listeners: publish call numbers, 0 = a listener given at construction
    subID,         \* Client.#subID
    subs,          \* keys of Client.#subs
    subscription,  \* Subscription objects by number: [closed]
    channel,       \* the Channel of each query() by subscription number
    stream,        \* the query() generator of each subscription: [pc, delivered, dropOpen]
    sendq,         \* #send calls polling a CONNECTING socket: [frame, then]
    sent,          \* frames handed to WebSocket.send, in order
    unhandled,     \* some un-awaited #send rejected
    pubs,          \* publish() calls: [event, try, done, by, outcome, result, late]
    recvd,         \* per subscription: messages dispatched to it while it was open
    relayClosed,   \* subscription ids for which a CLOSED message was dispatched
    regAtClose,    \* subscription ids that were registered when the connection closed
    sendLog,       \* #send calls: [calls, order (call numbers as written), failed, woke]
    handled,       \* per subscription: EOSE messages given to its handlers [eose, late],
                   \* messages that came for it after it was closed [lateMsgs, lateHeard]
    nmsgs,         \* messages injected so far
    qs,            \* the querySaved generator
    relay,         \* the paging relay: [mode, store, cap, seen, wire]
    garbage,       \* kinds of undecodable frames that have arrived
    hooks,         \* what the hooks of the listener given at construction do
    chanLog,       \* a Channel used on its own: [sends, accepted, rejected, closes]
    multi,         \* a MultiClient.getEvents call
    copier,        \* Collector.#copiedEvents and the workers calling #tryPublish
    cache,         \* Collector.#clients and the uses of #getClient
    run,           \* a Collector.run call
    enc,           \* an encodeFile generator
    oneSub         \* one Subscription, the close() calls on it and their microtasks

vars == <<wsState, closed, listeners, subID, subs, subscription, channel, stream,
          sendq, sent, unhandled, pubs, recvd, relayClosed, regAtClose, sendLog, handled,
          nmsgs, qs, relay, garbage, hooks, chanLog, multi, copier, cache, run, enc, oneSub>>

connVars == <<wsState, closed, listeners, subID, subs, subscription, channel, stream,
              sendq, sent, unhandled, pubs, recvd, relayClosed, regAtClose, sendLog, handled>>

libVars == <<multi, copier, cache, run, enc, oneSub>>

auxVars == <<garbage, hooks, chanLog, libVars>>

netVars == <<connVars, nmsgs, qs, relay, garbage, hooks, chanLog>>

\* ---------------------------------------------------------------- sequences
Range(s) == {s[i] : i \in 1..Len(s)}
IsPrefix(s, t) == Len(s) <= Len(t) /\ SubSeq(t, 1, Len(s)) = s
RemoveAt(s, i) == SubSeq(s, 1, i - 1) \o SubSeq(s, i + 1, Len(s))
Min(a, b) == IF a <= b THEN a ELSE b

\* ---------------------------------------------------------------- Channel
NewChannel == [items |-> <<>>, closed |-> FALSE, future |-> FALSE,
               batch |-> <<>>, batchClosed |-> FALSE, inBatch |-> FALSE]

\* Channel.send throws on a closed channel
ChannelSendThrows(c) == c.closed

\* variant: send() does not look at the closed flag
ChannelSendAlways(c, t) == [c EXCEPT !.items = Append(c.items, t), !.future = TRUE]

\* Channel.send; the caller catches the throw on a closed channel
ChannelSend(c, t) ==
    IF c.closed THEN c
    ELSE [c EXCEPT !.items = Append(c.items, t), !.future = TRUE]

ChannelClose(c) == [c EXCEPT !.closed = TRUE, !.future = TRUE]

\* variant: the iterator leaves the taken items in the buffer
ChannelTakeKeep(c) ==
    [c EXCEPT !.batch = c.items, !.batchClosed = c.closed,
              !.future = FALSE, !.inBatch = TRUE]

\* the iterator locks items and closed, and sets up the next wait
ChannelTake(c) ==
    [c EXCEPT !.batch = c.items, !.batchClosed = c.closed,
              !.items = <<>>, !.future = FALSE, !.inBatch = TRUE]

\* variant: the iterator reads the live closed flag after its yields
ChannelNextLive(c) ==
    LET c1 == IF c.inBatch /\ c.batch = <<>> /\ ~c.closed
              THEN [c EXCEPT !.inBatch = FALSE] ELSE c
        c2 == IF ~c1.inBatch /\ c1.future THEN ChannelTake(c1) ELSE c1
    IN  IF ~c2.inBatch THEN [kind |-> "block", chan |-> c2]
        ELSE IF c2.batch # <<>>
             THEN [kind |-> "item", item |-> Head(c2.batch),
                   chan |-> [c2 EXCEPT !.batch = Tail(c2.batch)]]
        ELSE IF c2.closed THEN [kind |-> "end", chan |-> c2]
        ELSE [kind |-> "block", chan |-> [c2 EXCEPT !.inBatch = FALSE]]

\* One next() on the channel's iterator: the item it yields, the end of the
\* stream, or "block" when it waits on the future.
ChannelNext(c) ==
    LET c1 == IF c.inBatch /\ c.batch = <<>> /\ ~c.batchClosed
              THEN [c EXCEPT !.inBatch = FALSE] ELSE c
        c2 == IF ~c1.inBatch /\ c1.future THEN ChannelTake(c1) ELSE c1
    IN  IF ~c2.inBatch THEN [kind |-> "block", chan |-> c2]
        ELSE IF c2.batch # <<>>
             THEN [kind |-> "item", item |-> Head(c2.batch),
                   chan |-> [c2 EXCEPT !.batch = Tail(c2.batch)]]
        ELSE IF c2.batchClosed THEN [kind |-> "end", chan |-> c2]
        ELSE [kind |-> "block", chan |-> [c2 EXCEPT !.inBatch = FALSE]]

\* ---------------------------------------------------------------- Client.#send
\* #send(r) on an OPEN socket writes the frame, on a CONNECTING socket polls
\* (delay(100)) until the state changes, and otherwise throws.
\* variant: #send writes without looking at readyState
SentAfterAlways(frame) == Append(sent, frame)

SentAfter(frame) == IF wsState = "OPEN" THEN Append(sent, frame) ELSE sent

QueueAfter(frame, then) ==
    IF wsState = "CONNECTING"
    THEN Append(sendq, [frame |-> frame, then |-> then, no |-> sendLog.calls + 1])
    ELSE sendq

SendRejects == wsState \in {"CLOSING", "CLOSED"}

\* the record of one more #send call
LogAfter ==
    [sendLog EXCEPT
        !.calls = sendLog.calls + 1,
        !.order = IF wsState = "OPEN" THEN Append(sendLog.order, sendLog.calls + 1)
                  ELSE sendLog.order,
        !.failed = IF SendRejects THEN sendLog.failed + 1 ELSE sendLog.failed]

\* the wake-up of one polling #send; the timers of different calls are not ordered
SendResume(i) ==
    /\ i \in 1..Len(sendq)
    /\ wsState # "CONNECTING"
    /\ sendq' = RemoveAt(sendq, i)
    /\ IF wsState = "OPEN"
       THEN /\ sent' = Append(sent, sendq[i].frame)
            /\ subs' = IF sendq[i].then = "delete"
                       THEN subs \ {sendq[i].frame.sub} ELSE subs
            /\ sendLog' = [sendLog EXCEPT !.order = Append(@, sendq[i].no),
                                          !.woke = @ + 1]
            /\ UNCHANGED unhandled
       ELSE /\ unhandled' = TRUE
            /\ sendLog' = [sendLog EXCEPT !.failed = @ + 1]
            /\ UNCHANGED <<sent, subs>>
    /\ UNCHANGED <<wsState, closed, listeners, subID, subscription, channel, stream,
                   pubs, recvd, relayClosed, regAtClose, handled>>

\* ---------------------------------------------------------------- publish
NoMsg == [type |-> "none"]
NoOutcome == [threw |-> "pending", isDuplicate |-> FALSE, message |-> <<>>]
NoResult == [published |-> FALSE, isDuplicate |-> FALSE, hadError |-> FALSE]

\* publish's listener: gotMessage resolves okMessage
ListenerAccepts(p, m) == m.type = "OK"

\* variant: accepted alone decides, as NIP-01 words it
PublishOutcomeStrict(m) ==
    LET isDuplicate == startsWith(m.message, DuplicatePrefix)
    IN  IF ~m.accepted
        THEN [threw |-> "PublishRejected", isDuplicate |-> FALSE, message |-> m.message]
        ELSE [threw |-> "none", isDuplicate |-> isDuplicate, message |-> m.message]

\* the rest of publish once okMessage resolved with m
PublishOutcome(m) ==
    LET isDuplicate == startsWith(m.message, DuplicatePrefix)
    IN  IF ~m.accepted /\ ~isDuplicate
        THEN [threw |-> "PublishRejected", isDuplicate |-> FALSE, message |-> m.message]
        ELSE [threw |-> "none", isDuplicate |-> isDuplicate, message |-> m.message]

\* publish's listener: connectionClosed rejects okMessage
ClosedOutcome == [threw |-> "ConnectionClosed", isDuplicate |-> FALSE, message |-> <<>>]

\* variant: the catch block leaves the flags alone
tryPublishSilent(outcome) ==
    IF outcome.threw = "none"
    THEN [published |-> TRUE, isDuplicate |-> outcome.isDuplicate, hadError |-> FALSE]
    ELSE NoResult

tryPublish(outcome) ==
    IF outcome.threw = "none"
    THEN [published |-> TRUE, isDuplicate |-> outcome.isDuplicate, hadError |-> FALSE]
    ELSE [published |-> FALSE, isDuplicate |-> FALSE, hadError |-> TRUE]

Finish(pub, m, outcome) ==
    [pub EXCEPT !.done = TRUE, !.by = m, !.outcome = outcome,
                !.result = IF pub.try THEN tryPublish(outcome) ELSE NoResult]

\* variant: nothing is deferred
RemoveListenersNone(ls, gone) == ls

\* ds.defer: this.#listeners.filter(it => it != listener), for each publish that exits
RemoveListeners(ls, gone) == SelectSeq(ls, LAMBDA l : l \notin gone)

Pending(p) == p \in 1..Len(pubs) /\ ~pubs[p].done
\* the listener given at construction is listener 0; its hooks may throw
Throws(l) == l = 0 /\ hooks = "throws"

\* variant: a throwing hook ends the loop
toListenersAbort(ls) ==
    {ls[i] : i \in {k \in 1..Len(ls) : \A j \in 1..(k - 1) : ~Throws(ls[j])}}

\* Client.#toListeners: the listeners whose hook is called; every call is in
\* its own try/catch, so a throw does not keep the loop from the next one
toListeners(ls) == {ls[i] : i \in 1..Len(ls)}

\* the publish calls whose listener #toListeners reaches
Listening == {p \in toListeners(listeners) : Pending(p)}

Publish(e, try) ==
    /\ Len(pubs) < MaxPubs
    /\ pubs' = Append(pubs, [event |-> e, try |-> try, done |-> FALSE, by |-> NoMsg,
                             outcome |-> NoOutcome, result |-> NoResult, late |-> closed,
                             oks |-> 0])
    /\ listeners' = Append(listeners, Len(pubs) + 1)
    /\ sent' = SentAfter(FrameEvent(e))
    /\ sendq' = QueueAfter(FrameEvent(e), "none")
    /\ unhandled' = (unhandled \/ SendRejects)
    /\ sendLog' = LogAfter
    /\ UNCHANGED <<wsState, closed, subID, subs, subscription, channel, stream,
                   recvd, relayClosed, regAtClose, handled>>

\* ---------------------------------------------------------------- Subscription
\* Subscription.close() of subscription n, whose channel is chan, followed by
\* the channel's close (awaitClosed().then and the generator's disposal).
\* variant: close() only resolves the Future
CloseSendsNever(n) == FALSE

\* variant: close() always sends CLOSE
CloseSendsAlways(n) == TRUE

CloseSends(n) == ~subscription[n].closed /\ subscription[n].id \in subs

Dispose(n, chan) ==
    /\ subscription' = [subscription EXCEPT ![n].closed = TRUE]
    /\ channel' = [channel EXCEPT ![n] = ChannelClose(chan)]
    /\ IF CloseSends(n)
       THEN /\ sent' = SentAfter(FrameClose(subscription[n].id))
            /\ sendq' = QueueAfter(FrameClose(subscription[n].id), "delete")
            /\ unhandled' = (unhandled \/ SendRejects)
            /\ sendLog' = LogAfter
            /\ subs' = IF wsState = "OPEN" THEN subs \ {subscription[n].id} ELSE subs
       ELSE UNCHANGED <<sent, sendq, unhandled, sendLog, subs>>

NextSubIDStuck(c) == IF c = 0 THEN 1 ELSE c

\* ++this.#subID: the id a new subscription gets
NextSubID(c) == c + 1

\* ---------------------------------------------------------------- query
\* the body of query() up to its for-await: new channel, #newSub, REQ
QueryStart(f) ==
    /\ subID' = NextSubID(subID)
    /\ subs' = subs \cup {toString(NextSubID(subID))}
    /\ subscription' = Append(subscription,
                              [closed |-> FALSE, id |-> toString(NextSubID(subID))])
    /\ channel' = Append(channel, NewChannel)
    /\ stream' = Append(stream, [pc |-> "open", delivered |-> <<>>, dropOpen |-> FALSE])
    /\ recvd' = Append(recvd, <<>>)
    /\ sent' = SentAfter(FrameReq(toString(NextSubID(subID)), f))
    /\ sendq' = QueueAfter(FrameReq(toString(NextSubID(subID)), f), "none")
    /\ unhandled' = (unhandled \/ SendRejects)
    /\ sendLog' = LogAfter
    /\ handled' = Append(handled, [eose |-> 0, late |-> FALSE, lateMsgs |-> 0, lateHeard |-> 0])
    /\ UNCHANGED <<wsState, closed, listeners, pubs, relayClosed, regAtClose>>

\* one next() of the consumer on the stream of subscription n
QueryNext(n) ==
    /\ n \in 1..Len(stream)
    /\ stream[n].pc = "open"
    /\ LET r == ChannelNext(channel[n])
       IN  /\ r.kind # "block"
           /\ IF r.kind = "item" /\ r.item.type \in {"EVENT", "EOSE"}
              THEN /\ stream' = [stream EXCEPT ![n].delivered = Append(@, r.item)]
                   /\ channel' = [channel EXCEPT ![n] = r.chan]
                   /\ UNCHANGED <<subscription, sent, sendq, unhandled, sendLog, subs>>
              ELSE /\ stream' = [stream EXCEPT ![n].pc =
                                    IF r.kind = "end" THEN "done" ELSE "threw"]
                   /\ Dispose(n, r.chan)
    /\ UNCHANGED <<wsState, closed, listeners, subID, pubs, recvd, relayClosed, regAtClose,
                   handled>>

\* the consumer leaves its for-await (return() at a yield)
QueryDrop(n) ==
    /\ n \in 1..Len(stream)
    /\ stream[n].pc = "open"
    /\ stream[n].delivered # <<>>
    /\ stream' = [stream EXCEPT ![n].pc = "dropped",
                                ![n].dropOpen = (wsState = "OPEN" /\ subscription[n].id \notin relayClosed)]
    /\ Dispose(n, channel[n])
    /\ UNCHANGED <<wsState, closed, listeners, subID, pubs, recvd, relayClosed, regAtClose,
                   handled>>

\* ---------------------------------------------------------------- queryCount
\* the body of queryCount() up to its for-await: new channel, #newSub, COUNT
QueryCountStart(f) ==
    /\ subID' = NextSubID(subID)
    /\ subs' = subs \cup {toString(NextSubID(subID))}
    /\ subscription' = Append(subscription,
                              [closed |-> FALSE, id |-> toString(NextSubID(subID))])
    /\ channel' = Append(channel, NewChannel)
    /\ stream' = Append(stream, [pc |-> "open", delivered |-> <<>>, dropOpen |-> FALSE,
                                 hasCount |-> FALSE, count |-> 0])
    /\ recvd' = Append(recvd, <<>>)
    /\ sent' = SentAfter(FrameCount(toString(NextSubID(subID)), f))
    /\ sendq' = QueueAfter(FrameCount(toString(NextSubID(subID)), f), "none")
    /\ unhandled' = (unhandled \/ SendRejects)
    /\ sendLog' = LogAfter
    /\ handled' = Append(handled, [eose |-> 0, late |-> FALSE, lateMsgs |-> 0, lateHeard |-> 0])
    /\ UNCHANGED <<wsState, closed, listeners, pubs, relayClosed, regAtClose>>

\* one turn of queryCount's for-await on the channel of subscription n: a
\* COUNT message is the result, other messages are passed over, and the end of
\* the stream makes the call throw; both ways out close the subscription
QueryCountNext(n) ==
    /\ n \in 1..Len(stream)
    /\ stream[n].pc = "open"
    /\ LET r == ChannelNext(channel[n])
       IN  /\ r.kind # "block"
           /\ IF r.kind = "item" /\ r.item.type # "COUNT"
              THEN /\ stream' = [stream EXCEPT ![n].delivered = Append(@, r.item)]
                   /\ channel' = [channel EXCEPT ![n] = r.chan]
                   /\ UNCHANGED <<subscription, sent, sendq, unhandled, sendLog, subs>>
              ELSE /\ stream' = IF r.kind = "item"
                                THEN [stream EXCEPT ![n].pc = "returned",
                                                    ![n].hasCount = TRUE,
                                                    ![n].count = r.item.count]
                                ELSE [stream EXCEPT ![n].pc = "threw"]
                   /\ Dispose(n, r.chan)
    /\ UNCHANGED <<wsState, closed, listeners, subID, pubs, recvd, relayClosed, regAtClose,
                   handled>>

\* ---------------------------------------------------------------- socket events
OnOpen ==
    /\ wsState = "CONNECTING"
    /\ wsState' = "OPEN"
    /\ UNCHANGED <<closed, listeners, subID, subs, subscription, channel, stream, sendq,
                   sent, unhandled, pubs, recvd, relayClosed, regAtClose, sendLog, handled>>

\* variant: the throw of a handler whose channel is closed leaves gotMessage
HandlerThrowEscapesClosed(c) == ChannelSendThrows(c)

\* Subscription.gotMessage calls each handler in a try/catch: no throw of
\* chan.send leaves it
HandlerThrowEscapes(c) == FALSE

\* Client.#onMessage for a frame that parses to m
OnMessage(m) ==
    /\ wsState \in {"OPEN", "CLOSING"}
    /\ LET sid == subscriptionId(m)
           hit == sid \in subs
           n == SubIndex(sid)
           late == hit /\ subscription[n].closed
           escapes == hit /\ m.type # "CLOSED" /\ HandlerThrowEscapes(channel[n])
           done == {p \in Listening : ListenerAccepts(p, m)}
           inList == {p \in Range(listeners) : Pending(p) /\ ListenerAccepts(p, m)}
           heard == [handled EXCEPT ![n].lateMsgs = @ + 1,
                                    ![n].lateHeard = IF escapes THEN @ ELSE @ + 1]
       IN  /\ IF hit /\ ~escapes
              THEN IF m.type = "CLOSED"
                   THEN /\ subs' = subs \ {sid}
                        /\ subscription' = [subscription EXCEPT ![n].closed = TRUE]
                        /\ channel' = [channel EXCEPT ![n] = ChannelClose(@)]
                        /\ relayClosed' = relayClosed \cup {sid}
                        /\ handled' = IF late THEN heard ELSE handled
                        /\ UNCHANGED recvd
                   ELSE /\ channel' = [channel EXCEPT ![n] = ChannelSend(@, m)]
                        /\ recvd' = IF subscription[n].closed THEN recvd
                                    ELSE [recvd EXCEPT ![n] = Append(@, m)]
                        /\ handled' = LET h == IF late THEN heard ELSE handled
                                      IN  IF m.type # "EOSE" THEN h
                                          ELSE [h EXCEPT
                                                   ![n].eose = @ + 1,
                                                   ![n].late = @ \/ subscription[n].closed]
                        /\ UNCHANGED <<subs, subscription, relayClosed>>
              ELSE /\ handled' = IF late THEN heard ELSE handled
                   /\ UNCHANGED <<subs, subscription, channel, relayClosed, recvd>>
           /\ unhandled' = (unhandled \/ escapes)
           /\ IF escapes
              THEN UNCHANGED <<pubs, listeners>>
              ELSE /\ pubs' = [p \in 1..Len(pubs) |->
                                  LET pub == IF p \in inList
                                             THEN [pubs[p] EXCEPT !.oks = @ + 1] ELSE pubs[p]
                                  IN  IF p \in done THEN Finish(pub, m, PublishOutcome(m))
                                      ELSE pub]
                   /\ listeners' = RemoveListeners(listeners, done)
    /\ UNCHANGED <<wsState, closed, subID, stream, sendq, sent, regAtClose, sendLog>>

\* variant: the close event only sets the flag
OnClosedSilent ==
    /\ wsState # "CLOSED"
    /\ wsState' = "CLOSED"
    /\ closed' = TRUE
    /\ regAtClose' = regAtClose \cup subs
    /\ UNCHANGED <<listeners, pubs, subID, subs, subscription, channel, stream, sendq,
                   sent, unhandled, recvd, relayClosed, sendLog, handled>>

\* the socket's close event: Client.#onClosed
OnClosed ==
    /\ wsState # "CLOSED"
    /\ wsState' = "CLOSED"
    /\ pubs' = [p \in 1..Len(pubs) |->
                   IF p \in Listening THEN Finish(pubs[p], NoMsg, ClosedOutcome)
                   ELSE pubs[p]]
    /\ listeners' = RemoveListeners(listeners, Listening)
    /\ closed' = TRUE
    /\ regAtClose' = regAtClose \cup subs
    /\ UNCHANGED <<subID, subs, subscription, channel, stream, sendq, sent, unhandled,
                   recvd, relayClosed, sendLog, handled>>

\* Client.close()
Close ==
    /\ wsState' = IF wsState \in {"CONNECTING", "OPEN"} THEN "CLOSING" ELSE wsState
    /\ LET open == {n \in 1..Len(subscription) :
                        subscription[n].id \in subs /\ ~subscription[n].closed}
       IN  /\ subscription' = [n \in 1..Len(subscription) |->
                                  IF n \in open THEN [subscription[n] EXCEPT !.closed = TRUE]
                                  ELSE subscription[n]]
           /\ channel' = [n \in 1..Len(channel) |->
                             IF n \in open THEN ChannelClose(channel[n]) ELSE channel[n]]
           /\ unhandled' = (unhandled \/ open # {})
           /\ sendLog' = [sendLog EXCEPT !.calls = @ + Cardinality(open),
                                         !.failed = @ + Cardinality(open)]
    /\ subs' = {}
    /\ regAtClose' = regAtClose \cup subs
    /\ UNCHANGED <<closed, listeners, subID, stream, sendq, sent, pubs, recvd, relayClosed,
                   handled>>

\* Client.#onMessage for a frame that does not decode: text that is not JSON
\* ("json") makes JSON.parse throw before the try block, so the handler's
\* promise rejects; JSON that matches none of the message shapes ("schema")
\* is caught and the connection is closed. Neither is dispatched.
UndecodableKinds == {"json", "schema"}

OnUndecodable(kind) ==
    /\ wsState \in {"OPEN", "CLOSING"}
    /\ IF kind = "schema"
       THEN Close
       ELSE /\ unhandled' = TRUE
            /\ UNCHANGED <<wsState, closed, listeners, subID, subs, subscription, channel,
                           stream, sendq, sent, pubs, recvd, relayClosed, regAtClose,
                           sendLog, handled>>

\* ---------------------------------------------------------------- querySaved
\* history fields: batch is the created_at of the events the current query()
\* delivered, in delivery order; prevBatch the same of the query() before;
\* until the until of the current REQ; atYield that the generator is suspended
\* at a yield; dropped that the consumer left at a yield
IdleQs == [pc |-> "idle", requestedLimit |-> 0, filter |-> NoFilter, eventCount |-> 0,
           earliestEvent |-> 0, batchCount |-> 0, cur |-> 0, yielded |-> <<>>, pages |-> 0,
           batch |-> <<>>, prevBatch |-> <<>>, until |-> 0, atYield |-> FALSE,
           dropped |-> FALSE]
NoRelay == [mode |-> "none", store |-> {}, cap |-> 0, seen |-> 0, wire |-> <<>>, rogue |-> 0]

\* variant: the limit is checked after the yield only
QSOnEventYieldFirst(q, event) ==
    LET eventCount == q.eventCount + 1
        counted == [q EXCEPT !.batchCount = q.batchCount + 1, !.eventCount = eventCount,
                             !.earliestEvent = IF q.pc = "first"
                                               THEN Min(event.created_at, q.earliestEvent)
                                               ELSE event.created_at,
                             !.batch = Append(q.batch, event.created_at)]
    IN  [counted EXCEPT !.yielded = Append(q.yielded, event),
                        !.pc = IF eventCount > q.requestedLimit THEN "return" ELSE q.pc,
                        !.atYield = (eventCount <= q.requestedLimit)]

\* the body of both for-await loops for an EVENT message: count, track the
\* earliest created_at, stop beyond the limit, yield, stop at the limit
QSOnEvent(q, event) ==
    LET batchCount == q.batchCount + 1
        eventCount == q.eventCount + 1
        earliestEvent == IF q.pc = "first"
                         THEN Min(event.created_at, q.earliestEvent)
                         ELSE event.created_at
        counted == [q EXCEPT !.batchCount = batchCount, !.eventCount = eventCount,
                             !.earliestEvent = earliestEvent,
                             !.batch = Append(q.batch, event.created_at)]
    IN  IF eventCount > q.requestedLimit
        THEN [counted EXCEPT !.pc = "return"]
        ELSE [counted EXCEPT !.yielded = Append(q.yielded, event),
                             !.pc = IF eventCount = q.requestedLimit THEN "return" ELSE q.pc,
                             !.atYield = (eventCount < q.requestedLimit)]

\* the call: the first query(filter)
QSStart(f) ==
    /\ qs.pc = "idle"
    /\ QueryStart(f)
    /\ qs' = [pc |-> "first",
              requestedLimit |-> IF f.hasLimit THEN f.limit ELSE MAX_SAFE_INTEGER,
              filter |-> f, eventCount |-> 0,
              earliestEvent |-> DateNow + 1000 * 60 * 10,
              batchCount |-> 0, cur |-> subID + 1, yielded |-> <<>>, pages |-> 1,
              batch |-> <<>>, prevBatch |-> <<>>, until |-> 0, atYield |-> FALSE,
              dropped |-> FALSE]

\* one message from the current query()
QSPull ==
    /\ qs.pc \in {"first", "more"}
    /\ QueryNext(qs.cur)
    /\ LET r == ChannelNext(channel[qs.cur])
           q == [qs EXCEPT !.atYield = FALSE]
       IN  qs' = IF r.kind = "end" THEN [q EXCEPT !.pc = "while"]
                 ELSE IF r.item.type = "EOSE" THEN [q EXCEPT !.pc = "break"]
                 ELSE IF r.item.type = "EVENT" THEN QSOnEvent(q, r.item.event)
                 ELSE [q EXCEPT !.pc = "threw"]

\* variant: the inner query() is left as it is
QSCloseInnerLeak ==
    /\ qs.pc \in {"break", "return"}
    /\ qs' = [qs EXCEPT !.pc = IF qs.pc = "break" THEN "while" ELSE "done"]
    /\ UNCHANGED connVars

\* break or return inside the for-await: the inner query() is returned
QSCloseInner ==
    /\ qs.pc \in {"break", "return"}
    /\ QueryDrop(qs.cur)
    /\ qs' = [qs EXCEPT !.pc = IF qs.pc = "break" THEN "while" ELSE "done"]

\* the consumer leaves its for-await over querySaved while the generator is
\* suspended at a yield: the generator returns there and the inner query() is
\* returned with it
QSDrop ==
    /\ qs.pc \in {"first", "more"}
    /\ qs.atYield
    /\ QueryDrop(qs.cur)
    /\ qs' = [qs EXCEPT !.pc = "done", !.atYield = FALSE, !.dropped = TRUE]

\* variant: any non-empty batch asks for another page
WhileConditionAny(q) == q.batchCount > 0 /\ q.eventCount < q.requestedLimit

WhileCondition(q) == q.batchCount > 1 /\ q.eventCount < q.requestedLimit

\* variant: the next page starts at the earliest event again
NextUntilSame(q) == q.earliestEvent

\* the until of the next page's filter
NextUntil(q) == q.earliestEvent - 1

\* the while loop: the next page
QSNextPage ==
    /\ qs.pc = "while"
    /\ WhileCondition(qs)
    /\ qs.pages < MaxPages
    /\ QueryStart([qs.filter EXCEPT !.hasUntil = TRUE, !.until = NextUntil(qs)])
    /\ qs' = [qs EXCEPT !.pc = "more", !.batchCount = 0, !.cur = subID + 1,
                        !.pages = qs.pages + 1, !.batch = <<>>, !.prevBatch = qs.batch,
                        !.until = NextUntil(qs)]

QSFinish ==
    /\ qs.pc = "while"
    /\ ~WhileCondition(qs)
    /\ qs' = [qs EXCEPT !.pc = "done"]
    /\ UNCHANGED connVars

\* ---------------------------------------------------------------- MultiClient.getEvents
MultiIds == {"a", "b"}
MultiClients == 1..MaxClients

NoMulti == [pc |-> "idle", requested |-> {}, order |-> <<>>, idx |-> 1,
            remaining |-> {}, found |-> {}, log |-> <<>>]

\* shuffled(): the clients given to forClients in any order
Shuffles ==
    UNION {{f \in [1..Cardinality(S) -> S] :
               \A i, j \in 1..Cardinality(S) : i # j => f[i] # f[j]} :
           S \in SUBSET MultiClients}

\* client.querySimple(filter): an error, or events (known here by their ids)
Answers ==
    {[threw |-> TRUE, events |-> {}]}
        \cup {[threw |-> FALSE, events |-> E] : E \in SUBSET MultiIds}

\* getEvents(events) up to its loop
GetEventsStart(ids, order) ==
    /\ multi.pc = "idle"
    /\ multi' = [pc |-> "loop", requested |-> ids, order |-> order, idx |-> 1,
                 remaining |-> ids, found |-> {}, log |-> <<>>]
    /\ UNCHANGED <<netVars, copier, cache, run, enc, oneSub>>

\* variant: an error of querySimple leaves getEvents
OnQueryErrorFatal(m) == [m EXCEPT !.pc = "threw"]

\* the catch block: the error is logged and the loop goes on
OnQueryError(m) == [m EXCEPT !.idx = @ + 1]

\* variant: the ids already found stay in remaining
RemainingAll(m) == m.remaining

\* remaining.filter(id => !found.has(id))
Remaining(m) == m.remaining \ m.found

\* the filter given to querySimple
GetEventsFilter(rem) == [ids |-> rem, limit |-> Cardinality(rem)]

\* one iteration of the loop over the shuffled clients
GetEventsQuery ==
    /\ multi.pc = "loop"
    /\ multi.idx <= Len(multi.order)
    /\ LET rem == Remaining(multi)
       IN  IF rem = {}
           THEN multi' = [multi EXCEPT !.remaining = rem, !.pc = "done"]
           ELSE \E a \in Answers :
                   LET m == [multi EXCEPT
                                !.remaining = rem,
                                !.log = Append(@, [threw |-> a.threw, events |-> a.events,
                                                   filter |-> GetEventsFilter(rem)])]
                   IN  multi' = IF a.threw THEN OnQueryError(m)
                                ELSE [m EXCEPT !.found = @ \cup a.events,
                                               !.idx = @ + 1]
    /\ UNCHANGED <<netVars, copier, cache, run, enc, oneSub>>

\* the loop is over: return found
GetEventsReturn ==
    /\ multi.pc = "loop"
    /\ multi.idx > Len(multi.order)
    /\ multi' = [multi EXCEPT !.pc = "done"]
    /\ UNCHANGED <<netVars, copier, cache, run, enc, oneSub>>

\* ---------------------------------------------------------------- Collector
\* The mappers of #copyEventRefs run on up to Parallel workers; each calls
\* #tryPublish for one event after another. A worker is "idle" (between
\* calls), holds the id of the event whose dest.tryPublish it awaits, or has
\* "failed" (the #dest getter threw). attempts lists the dest.tryPublish
\* calls, skipped the calls answered from #copiedEvents.
NoCopier == [copiedEvents |-> {}, workers |-> [w \in 1..Parallel |-> "idle"],
             attempts |-> <<>>, calls |-> 0, skipped |-> <<>>]

\* variant: the id is not recorded before the publish attempt
MarkCopiedLate(copied, id) == copied

\* this.#copiedEvents.add(event.id)
MarkCopied(copied, id) == copied \cup {id}

\* #tryPublish(event) of worker w up to its await; destOpen tells whether the
\* #dest getter finds an open destination
CollectorTryPublish(w, id, destOpen) ==
    /\ copier.workers[w] = "idle"
    /\ copier.calls < MaxCopyCalls
    /\ copier' =
          IF id \in copier.copiedEvents
          THEN [copier EXCEPT
                   !.calls = @ + 1,
                   !.skipped = Append(@, [id |-> id,
                                          racing |-> \E v \in 1..Parallel :
                                                        copier.workers[v] = id])]
          ELSE IF destOpen
          THEN [copier EXCEPT
                   !.calls = @ + 1,
                   !.copiedEvents = MarkCopied(@, id),
                   !.attempts = Append(@, id),
                   !.workers[w] = id]
          ELSE [copier EXCEPT
                   !.calls = @ + 1,
                   !.copiedEvents = MarkCopied(@, id),
                   !.workers[w] = "failed"]
    /\ UNCHANGED <<netVars, multi, cache, run, enc, oneSub>>

\* dest.tryPublish of worker w has resolved
CollectorPublished(w) ==
    /\ copier.workers[w] \in EventIdPool
    /\ copier' = [copier EXCEPT !.workers[w] = "idle"]
    /\ UNCHANGED <<netVars, multi, cache, run, enc, oneSub>>

\* Collector.#clients: for each URL no client ("none"), a client whose
\* connection has not closed ("open"), or one with closed = true ("closed").
\* uses lists the #getClient calls: what the cache held and what came back.
Urls == {"dest", "src"}

NoCache == [clients |-> [u \in Urls |-> "none"], uses |-> <<>>]

\* #getClient(url): null for a cached client that has closed, the cached
\* client, or a new one that is put into the cache
GetClient(url) ==
    /\ Len(cache.uses) < MaxUses
    /\ LET found == cache.clients[url]
           result == IF found = "closed" THEN "null"
                     ELSE IF found = "open" THEN "cached"
                     ELSE "new"
       IN  cache' = [cache EXCEPT
                        !.clients[url] = IF found = "none" THEN "open" ELSE found,
                        !.uses = Append(@, [url |-> url, found |-> found,
                                            result |-> result])]
    /\ UNCHANGED <<netVars, multi, copier, run, enc, oneSub>>

\* the connection of the cached client for url closes (Client.#onClosed)
ClientCloses(url) ==
    /\ cache.clients[url] = "open"
    /\ cache' = [cache EXCEPT !.clients[url] = "closed"]
    /\ UNCHANGED <<netVars, multi, copier, run, enc, oneSub>>

\* Collector.run for a profile with the flags fetchMine and fetchFollows.
\* queried and published record, by author, what was asked of the sources
\* and what was handed to the destination: the "profile" (kind 0), the
\* "follows" (kind 3) or the author's "events". sentToDest lists the ids of
\* the events given to dest.publish or dest.tryPublish, each of which writes
\* one EVENT frame; userLog the #tryPublish calls of #copyUserEvents that
\* reached the destination; savedEvents and savedProfiles what #saveRefs has
\* added.
Owner == "owner"
Followed == {"f1"}
Stranger == "x"
Pubkeys == {Owner, Stranger} \cup Followed

NoRun == [pc |-> "idle", fetchMine |-> TRUE, fetchFollows |-> TRUE, todo |-> {},
          queried |-> {}, published |-> {},
          copiedEvents |-> {}, sentToDest |-> <<>>, userLog |-> {},
          eventsToCopy |-> {}, profilesToCopy |-> {},
          savedEvents |-> {}, savedProfiles |-> {}]

Copied(author, what) == [author |-> author, what |-> what]

\* the events on the source relays: everybody's profile, the owner's follow
\* list and note, a note of each followed pubkey, and a stranger's note that
\* the notes refer to
RunEvent(id, pubkey, kind, etags, ptags) ==
    [id |-> id, pubkey |-> pubkey, kind |-> kind, etags |-> etags, ptags |-> ptags]

ProfileOf(pubkey) == RunEvent("profile-" \o pubkey, pubkey, "profile", {}, {})
EvFollows == RunEvent("follows", Owner, "follows", {}, Followed)
EvReferred == RunEvent("referred", Stranger, "note", {}, {})
NoteOf(pubkey) ==
    RunEvent("note-" \o pubkey, pubkey, "note", {EvReferred.id},
             IF pubkey = Owner THEN {Stranger} ELSE {Owner})

\* what a source answers to {authors: [pubkey], limit}
EventsBy(pubkey) ==
    {ProfileOf(pubkey), NoteOf(pubkey)} \cup (IF pubkey = Owner THEN {EvFollows} ELSE {})

RunEvents == UNION {EventsBy(pk) : pk \in {Owner} \cup Followed} \cup {EvReferred}

\* what the destination answers to an EVENT frame: accepted as new, accepted
\* as a duplicate, or not accepted
Outcomes == {"new", "duplicate", "rejected"}

\* the EVENT frame of dest.publish(event)
SendToDest(r, event) == [r EXCEPT !.sentToDest = Append(@, event.id)]

\* variant: #saveRefs leaves out the pubkey of the event
SaveRefsTagsOnly(r, event) ==
    [r EXCEPT !.eventsToCopy = @ \cup event.etags,
              !.profilesToCopy = @ \cup event.ptags,
              !.savedEvents = @ \cup event.etags,
              !.savedProfiles = @ \cup event.ptags]

\* #saveRefs(event)
SaveRefs(r, event) ==
    [r EXCEPT !.eventsToCopy = @ \cup event.etags,
              !.profilesToCopy = @ \cup event.ptags \cup {event.pubkey},
              !.savedEvents = @ \cup event.etags,
              !.savedProfiles = @ \cup event.ptags \cup {event.pubkey}]

\* #tryPublish(event): the Collector afterwards, and what it returns
TryPublish(r, event, outcome) ==
    IF event.id \in r.copiedEvents
    THEN [run |-> r, ok |-> FALSE]
    ELSE [run |-> SendToDest([r EXCEPT !.copiedEvents = MarkCopied(@, event.id)], event),
          ok |-> outcome = "new"]

\* the loop of #copyUserEvents over the events of one source
RECURSIVE CopyUserEvents(_, _, _)
CopyUserEvents(r, events, outcome) ==
    IF events = {} THEN r
    ELSE LET event == CHOOSE e \in events : TRUE
             t == TryPublish(r, event, outcome[event.id])
             logged == [t.run EXCEPT
                           !.userLog = IF event.id \in r.copiedEvents THEN @
                                       ELSE @ \cup {[event |-> event,
                                                     outcome |-> outcome[event.id]]}]
         IN  CopyUserEvents(IF t.ok THEN SaveRefs(logged, event) ELSE logged,
                            events \ {event}, outcome)

\* the mapper of #copyEventRefs over the events getEvents found
RECURSIVE CopyEventRefs(_, _, _)
CopyEventRefs(r, events, outcome) ==
    IF events = {} THEN r
    ELSE LET event == CHOOSE e \in events : TRUE
             t == TryPublish(r, event, outcome[event.id])
         IN  CopyEventRefs(IF t.ok
                           THEN [t.run EXCEPT !.profilesToCopy = @ \cup {event.pubkey}]
                           ELSE t.run,
                           events \ {event}, outcome)

\* the mapper of #copyProfileRefs over the profiles getProfile found
RECURSIVE CopyProfileRefs(_, _, _)
CopyProfileRefs(r, events, outcome) ==
    IF events = {} THEN r
    ELSE LET event == CHOOSE e \in events : TRUE
         IN  CopyProfileRefs(TryPublish(r, event, outcome[event.id]).run,
                             events \ {event}, outcome)

\* what the destination answers to each event of a set
OutcomesOf(events) == [{e.id : e \in events} -> Outcomes]

\* new Collector({profile}) and the call of run()
RunStart(fetchMine, fetchFollows) ==
    /\ run.pc = "idle"
    /\ run' = [run EXCEPT !.pc = "copyProfile", !.fetchMine = fetchMine,
                          !.fetchFollows = fetchFollows]
    /\ UNCHANGED <<netVars, multi, copier, cache, enc, oneSub>>

\* await this.#copyProfile(this.profile.pubkey)
RunCopyProfile(found, outcome) ==
    /\ run.pc = "copyProfile"
    /\ LET r == [run EXCEPT
                    !.pc = "copyFollows",
                    !.queried = @ \cup {Copied(Owner, "profile")},
                    !.published = IF found THEN @ \cup {Copied(Owner, "profile")} ELSE @]
       IN  run' = IF found THEN TryPublish(r, ProfileOf(Owner), outcome).run ELSE r
    /\ UNCHANGED <<netVars, multi, copier, cache, enc, oneSub>>

\* await this.#copyFollows(this.profile.pubkey); dest.publish may throw
RunCopyFollows(found, ok) ==
    /\ run.pc = "copyFollows"
    /\ LET r == [run EXCEPT
                    !.pc = IF found /\ ~ok THEN "threw" ELSE "copyMine",
                    !.queried = @ \cup {Copied(Owner, "follows")},
                    !.published = IF found /\ ok THEN @ \cup {Copied(Owner, "follows")}
                                  ELSE @]
       IN  run' = IF found THEN SendToDest(r, EvFollows) ELSE r
    /\ UNCHANGED <<netVars, multi, copier, cache, enc, oneSub>>

\* await this.#copyUserEvents(this.profile.pubkey, this.#limit)
RunCopyMine(events, outcome) ==
    /\ run.pc = "copyMine"
    /\ events \subseteq EventsBy(Owner)
    /\ LET r == [run EXCEPT
                    !.pc = "findFollows",
                    !.queried = @ \cup {Copied(Owner, "events")},
                    !.published = IF events # {} THEN @ \cup {Copied(Owner, "events")}
                                  ELSE @]
       IN  run' = CopyUserEvents(r, events, outcome)
    /\ UNCHANGED <<netVars, multi, copier, cache, enc, oneSub>>

\* the destination's kind-3 event of the owner and extractFollows
RunFindFollows(follows) ==
    /\ run.pc = "findFollows"
    /\ run' = [run EXCEPT !.pc = "copyFollowed", !.todo = follows]
    /\ UNCHANGED <<netVars, multi, copier, cache, enc, oneSub>>

\* one turn of the loop over follows: #copyUserEvents(follow.pubkey, limit)
RunCopyFollowed(f, events, outcome) ==
    /\ run.pc = "copyFollowed"
    /\ f \in run.todo
    /\ events \subseteq EventsBy(f)
    /\ LET r == [run EXCEPT
                    !.todo = @ \ {f},
                    !.queried = @ \cup {Copied(f, "events")},
                    !.published = IF events # {} THEN @ \cup {Copied(f, "events")}
                                  ELSE @]
       IN  run' = CopyUserEvents(r, events, outcome)
    /\ UNCHANGED <<netVars, multi, copier, cache, enc, oneSub>>

\* the loop is over: #copyEventRefs with what getEvents found of #eventsToCopy
RunCopyEventRefs(events, outcome) ==
    /\ run.pc = "copyFollowed"
    /\ run.todo = {}
    /\ \A e \in events : e.id \in run.eventsToCopy
    /\ run' = [CopyEventRefs(run, events, outcome) EXCEPT
                  !.pc = "copyProfileRefs", !.eventsToCopy = {}]
    /\ UNCHANGED <<netVars, multi, copier, cache, enc, oneSub>>

\* #copyProfileRefs with the profiles getProfile found for #profilesToCopy
RunCopyProfileRefs(pubkeys, outcome) ==
    /\ run.pc = "copyProfileRefs"
    /\ pubkeys \subseteq run.profilesToCopy
    /\ run' = [CopyProfileRefs(run, {ProfileOf(pk) : pk \in pubkeys}, outcome) EXCEPT
                  !.pc = "done", !.profilesToCopy = {}]
    /\ UNCHANGED <<netVars, multi, copier, cache, enc, oneSub>>

\* ---------------------------------------------------------------- encodeFile
\* encodeFile for a file of a given size. Bytes are not modelled: a chunk is
\* the slice [start, end) of the blob, and the signer, deterministic in the
\* template and createdAt, gives the chunk event of a slice one id, written
\* <<start, end>>. Lengths of JSON text are computed, the text is not built.
NoEnc == [pc |-> "idle", size |-> 0, max |-> 0, blockSize |-> 0, start |-> 0,
          eventIDs |-> <<>>, out |-> <<>>]

\* the options that are text
FileName == <<"f">>
Mimetype == <<"a", "/", "b">>
Description == <<>>

\* the characters of n in decimal
RECURSIVE DecimalLength(_)
DecimalLength(n) == IF n < 10 THEN 1 ELSE 1 + DecimalLength(n \div 10)

\* encodeBase64 of n bytes: 4 characters for every 3 bytes, padded
Base64Length(n) == 4 * ((n + 2) \div 3)

\* JSON.stringify of a tag ["name","value"]
TagLength(nameLen, valueLen) == nameLen + valueLen + 7

\* maxContentSize and blockSize
BlockSize(maxMessageSize) ==
    LET maxContentSize == maxMessageSize - EVENT_OVERHEAD
        blockSize == (maxContentSize * 3) \div 4
    IN  blockSize - (blockSize % 3)

\* variant: the end of a chunk is not cut to the size of the blob
ChunkEndOver(start, blockSize, size) == start + blockSize

\* blobChunks: the end of the chunk that starts at start
ChunkEnd(start, blockSize, size) ==
    IF start + blockSize > size THEN size ELSE start + blockSize

\* signChunk: the kind-1064 event of the chunk [start, end)
SignChunk(start, end) ==
    [kind |-> KindContents, id |-> <<start, end>>, start |-> start, end |-> end,
     etags |-> <<>>,
     jsonLength |-> EVENT_OVERHEAD + Base64Length(end - start)]

\* the kind-1065 event: tags name, m, x, fileName, size, blockSize when there
\* is more than one chunk, and an e tag for each chunk id
SignMeta(size, blockSize, eventIDs) ==
    LET n == Len(eventIDs)
        fixed == TagLength(4, Len(FileName)) + TagLength(1, Len(Mimetype))
                 + TagLength(1, IdLength) + TagLength(8, Len(FileName))
                 + TagLength(4, DecimalLength(size))
        block == IF n > 1 THEN TagLength(9, DecimalLength(blockSize)) ELSE 0
        ntags == 5 + (IF n > 1 THEN 1 ELSE 0) + n
    IN  [kind |-> KindMetadata, id |-> <<size, blockSize>>, start |-> 0, end |-> size,
         etags |-> eventIDs,
         jsonLength |-> EVENT_OVERHEAD + Len(Description) + fixed + block
                        + n * TagLength(1, IdLength) + (ntags - 1)]

\* variant: the ids are collected newest first
PushIdFront(ids, id) == <<id>> \o ids

\* eventIDs.push(event.id)
PushId(ids, id) == Append(ids, id)

\* variant: what is yielded comes out before what was yielded earlier
YieldFront(out, event) == <<event>> \o out

\* yield: the events the consumer of encodeFile gets, in order
Yield(out, event) == Append(out, event)

\* encodeFile(opts) up to the first loop
EncodeStart(size, maxMessageSize) ==
    /\ enc.pc = "idle"
    /\ enc' = [pc |-> "pass1", size |-> size, max |-> maxMessageSize,
               blockSize |-> BlockSize(maxMessageSize), start |-> 0,
               eventIDs |-> <<>>, out |-> <<>>]
    /\ UNCHANGED <<netVars, multi, copier, cache, run, oneSub>>

\* one turn of the first loop: sign the chunk, keep its id
EncodePass1 ==
    /\ enc.pc = "pass1"
    /\ enc.start < enc.size
    /\ LET end == ChunkEnd(enc.start, enc.blockSize, enc.size)
       IN  enc' = [enc EXCEPT
                      !.eventIDs = PushId(@, SignChunk(enc.start, end).id),
                      !.start = end]
    /\ UNCHANGED <<netVars, multi, copier, cache, run, oneSub>>

\* the first loop is over: sign and yield the metadata event
EncodeMeta ==
    /\ enc.pc = "pass1"
    /\ enc.start >= enc.size
    /\ enc' = [enc EXCEPT
                  !.pc = "pass2",
                  !.start = 0,
                  !.out = Yield(@, SignMeta(enc.size, enc.blockSize, enc.eventIDs))]
    /\ UNCHANGED <<netVars, multi, copier, cache, run, oneSub>>

\* one turn of the second loop: sign the chunk again and yield it
EncodePass2 ==
    /\ enc.pc = "pass2"
    /\ enc.start < enc.size
    /\ LET end == ChunkEnd(enc.start, enc.blockSize, enc.size)
       IN  enc' = [enc EXCEPT
                      !.out = Yield(@, SignChunk(enc.start, end)),
                      !.start = end]
    /\ UNCHANGED <<netVars, multi, copier, cache, run, oneSub>>

\* the second loop is over
EncodeEnd ==
    /\ enc.pc = "pass2"
    /\ enc.start >= enc.size
    /\ enc' = [enc EXCEPT !.pc = "done"]
    /\ UNCHANGED <<netVars, multi, copier, cache, run, oneSub>>

\* ---------------------------------------------------------------- one Subscription
\* Subscription.close() at the grain of microtasks. close() tests
\* Future.resolved, which a reaction of the promise sets one microtask after
\* resolve(); #closeSubscription tests the registry and calls #send, whose
\* first await puts the write one microtask later, and deletes the id after
\* the write. jobs is the microtask queue; polling counts the #send calls
\* waiting in delay(100) for a CONNECTING socket.
NoOneSub == [pc |-> "idle", ws |-> "CLOSED", registered |-> FALSE, promise |-> FALSE,
             resolved |-> FALSE, jobs |-> <<>>, polling |-> 0, frames |-> 0,
             rejected |-> 0, disposed |-> FALSE, clientCalls |-> 0, lagCalls |-> 0]

\* variant: Client.close() leaves the socket as it is
ClientCloseLate(ws) == ws

\* this.#ws?.close(), the first statement of Client.close()
ClientCloseState(ws) == IF ws \in {"CONNECTING", "OPEN"} THEN "CLOSING" ELSE ws

\* Future.resolve(): the promise settles now, the reaction that sets
\* #resolved is queued
FutureResolve(s) ==
    IF s.promise THEN s
    ELSE [s EXCEPT !.promise = TRUE, !.jobs = Append(@, "flag")]

\* Client.#closeSubscription up to its await
CloseSubscription(s) ==
    IF s.registered THEN [s EXCEPT !.jobs = Append(@, "send")] ELSE s

\* Subscription.close()
SubscriptionClose(s) ==
    IF s.resolved THEN s
    ELSE FutureResolve(CloseSubscription(
             [s EXCEPT !.lagCalls = IF s.promise THEN @ + 1 ELSE @]))

\* #send after `await this.#ws`, or after a delay(100)
SendClose(s) ==
    IF s.ws = "CONNECTING" THEN [s EXCEPT !.polling = @ + 1]
    ELSE IF s.ws = "OPEN" THEN [s EXCEPT !.frames = @ + 1, !.jobs = Append(@, "delete")]
    ELSE [s EXCEPT !.rejected = @ + 1]

\* query() creates the subscription on a socket that is connecting or open
OneSubStart(ws) ==
    /\ oneSub.pc = "idle"
    /\ oneSub' = [NoOneSub EXCEPT !.pc = "live", !.ws = ws, !.registered = TRUE]
    /\ UNCHANGED <<netVars, multi, copier, cache, run, enc>>

\* the disposal of the query stream: `using sub`
OneSubDispose ==
    /\ oneSub.pc = "live"
    /\ ~oneSub.disposed
    /\ oneSub' = SubscriptionClose([oneSub EXCEPT !.disposed = TRUE])
    /\ UNCHANGED <<netVars, multi, copier, cache, run, enc>>

\* Client.close(): close the socket, close() every registered subscription,
\* clear the registry
OneSubClientClose ==
    /\ oneSub.pc = "live"
    /\ oneSub.clientCalls < MaxCloseCalls
    /\ LET s1 == [oneSub EXCEPT !.ws = ClientCloseState(@), !.clientCalls = @ + 1]
           s2 == IF s1.registered THEN SubscriptionClose(s1) ELSE s1
       IN  oneSub' = [s2 EXCEPT !.registered = FALSE]
    /\ UNCHANGED <<netVars, multi, copier, cache, run, enc>>

\* a CLOSED message for the subscription: #onMessage removes it from the
\* registry and gotMessage resolves the Future
OneSubRelayClosed ==
    /\ oneSub.pc = "live"
    /\ oneSub.jobs = <<>>
    /\ oneSub.ws \in {"OPEN", "CLOSING"}
    /\ oneSub.registered
    /\ oneSub' = FutureResolve([oneSub EXCEPT !.registered = FALSE])
    /\ UNCHANGED <<netVars, multi, copier, cache, run, enc>>

\* the next microtask
OneSubJob ==
    /\ oneSub.jobs # <<>>
    /\ LET job == Head(oneSub.jobs)
           s == [oneSub EXCEPT !.jobs = Tail(@)]
       IN  oneSub' = IF job = "send" THEN SendClose(s)
                     ELSE IF job = "flag" THEN [s EXCEPT !.resolved = TRUE]
                     ELSE [s EXCEPT !.registered = FALSE]
    /\ UNCHANGED <<netVars, multi, copier, cache, run, enc>>

\* a delay(100) of a polling #send ends
OneSubPoll ==
    /\ oneSub.jobs = <<>>
    /\ oneSub.polling > 0
    /\ oneSub.ws # "CONNECTING"
    /\ oneSub' = SendClose([oneSub EXCEPT !.polling = @ - 1])
    /\ UNCHANGED <<netVars, multi, copier, cache, run, enc>>

\* the socket opens
OneSubOpen ==
    /\ oneSub.pc = "live"
    /\ oneSub.jobs = <<>>
    /\ oneSub.ws = "CONNECTING"
    /\ oneSub' = [oneSub EXCEPT !.ws = "OPEN"]
    /\ UNCHANGED <<netVars, multi, copier, cache, run, enc>>

\* the socket's close event
OneSubSocketClosed ==
    /\ oneSub.pc = "live"
    /\ oneSub.jobs = <<>>
    /\ oneSub.ws # "CLOSED"
    /\ oneSub' = [oneSub EXCEPT !.ws = "CLOSED"]
    /\ UNCHANGED <<netVars, multi, copier, cache, run, enc>>

\* ---------------------------------------------------------------- the connection
InitConn ==
    /\ wsState = "CONNECTING"
    /\ closed = FALSE
    /\ listeners = <<0>>
    /\ subID = 0
    /\ subs = {}
    /\ subscription = <<>>
    /\ channel = <<>>
    /\ stream = <<>>
    /\ sendq = <<>>
    /\ sent = <<>>
    /\ unhandled = FALSE
    /\ pubs = <<>>
    /\ recvd = <<>>
    /\ relayClosed = {}
    /\ regAtClose = {}
    /\ sendLog = [calls |-> 0, order |-> <<>>, failed |-> 0, woke |-> 0]
    /\ handled = <<>>

NoChanLog == [sends |-> 0, accepted |-> <<>>, rejected |-> <<>>, closes |-> 0]

InitLib ==
    /\ multi = NoMulti
    /\ copier = NoCopier
    /\ cache = NoCache
    /\ run = NoRun
    /\ enc = NoEnc
    /\ oneSub = NoOneSub

InitAux ==
    /\ garbage = {}
    /\ hooks = "quiet"
    /\ chanLog = NoChanLog
    /\ InitLib

Init ==
    /\ InitConn
    /\ InitAux
    /\ nmsgs = 0
    /\ qs = IdleQs
    /\ relay = NoRelay

\* what a relay may send about subscriptions
SubMsgs ==
    LET ids == {toString(n) : n \in 1..MaxSubs}
    IN  {MsgEvent(s, e) : s \in ids, e \in EventPool}
        \cup {MsgEose(s) : s \in ids}
        \cup {MsgClosed(s) : s \in ids}

\* what a relay may send about published events
PubMsgs ==
    {MsgOk(id, ok, d) : id \in EventIdPool, ok \in BOOLEAN, d \in Details}
        \cup {MsgNotice}

Inject(m) ==
    /\ nmsgs < MaxMsgs
    /\ nmsgs' = nmsgs + 1
    /\ OnMessage(m)
    /\ UNCHANGED <<qs, relay, auxVars>>

\* the relay sends a frame that does not decode
Garbage(kind) ==
    /\ nmsgs < MaxMsgs
    /\ nmsgs' = nmsgs + 1
    /\ OnUndecodable(kind)
    /\ garbage' = garbage \cup {kind}
    /\ UNCHANGED <<qs, relay, hooks, chanLog, libVars>>

CallQuery ==
    /\ subID < MaxSubs
    /\ QueryStart(NoFilter)
    /\ UNCHANGED <<nmsgs, qs, relay, auxVars>>

Quiet(A) == A /\ UNCHANGED <<nmsgs, qs, relay, auxVars>>

Socket ==
    \/ Quiet(OnOpen)
    \/ Quiet(OnClosed)
    \/ Quiet(Close)
    \/ \E i \in 1..Len(sendq) : Quiet(SendResume(i))

\* queries on one connection
Next ==
    \/ Socket
    \/ CallQuery
    \/ \E n \in 1..Len(stream) : Quiet(QueryNext(n))
    \/ \E n \in 1..Len(stream) : Quiet(QueryDrop(n))
    \/ \E m \in SubMsgs : Inject(m)
    \/ \E kind \in UndecodableKinds : Garbage(kind)

Spec == Init /\ [][Next]_vars

\* what a relay may send about COUNT subscriptions
CountMsgs ==
    LET ids == {toString(n) : n \in 1..MaxSubs}
    IN  {MsgCount(s, c) : s \in ids, c \in 0..MaxCount}
        \cup {MsgEose(s) : s \in ids}
        \cup {MsgClosed(s) : s \in ids}

CallQueryCount ==
    /\ subID < MaxSubs
    /\ QueryCountStart(NoFilter)
    /\ UNCHANGED <<nmsgs, qs, relay, auxVars>>

\* queryCount calls on one connection
NextCount ==
    \/ Socket
    \/ CallQueryCount
    \/ \E n \in 1..Len(stream) : Quiet(QueryCountNext(n))
    \/ \E m \in CountMsgs : Inject(m)

CountSpec == Init /\ [][NextCount]_vars

\* publishes on one connection
NextPublish ==
    \/ Socket
    \/ \E e \in EventPool, try \in BOOLEAN : Quiet(Publish(e, try))
    \/ \E m \in PubMsgs : Inject(m)

PublishSpec == Init /\ [][NextPublish]_vars

\* queries and publishes on an open connection whose first listener has hooks
\* that throw
InitListener ==
    /\ wsState = "OPEN"
    /\ closed = FALSE
    /\ listeners = <<0>>
    /\ subID = 0
    /\ subs = {}
    /\ subscription = <<>>
    /\ channel = <<>>
    /\ stream = <<>>
    /\ sendq = <<>>
    /\ sent = <<>>
    /\ unhandled = FALSE
    /\ pubs = <<>>
    /\ recvd = <<>>
    /\ relayClosed = {}
    /\ regAtClose = {}
    /\ sendLog = [calls |-> 0, order |-> <<>>, failed |-> 0, woke |-> 0]
    /\ handled = <<>>
    /\ garbage = {}
    /\ hooks = "throws"
    /\ chanLog = NoChanLog
    /\ InitLib
    /\ nmsgs = 0
    /\ qs = IdleQs
    /\ relay = NoRelay

ListenerMsgs ==
    SubMsgs \cup {MsgOk(id, TRUE, DetailShort) : id \in EventIdPool} \cup {MsgNotice}

NextListener ==
    \/ Quiet(OnClosed)
    \/ CallQuery
    \/ \E n \in 1..Len(stream) : Quiet(QueryNext(n))
    \/ \E e \in EventPool : Quiet(Publish(e, FALSE))
    \/ \E m \in ListenerMsgs : Inject(m)

ListenerSpec == InitListener /\ [][NextListener]_vars

\* ---------------------------------------------------------------- the library
\* the connection side at rest
InitNet ==
    /\ InitConn
    /\ garbage = {}
    /\ hooks = "quiet"
    /\ chanLog = NoChanLog
    /\ nmsgs = 0
    /\ qs = IdleQs
    /\ relay = NoRelay

\* a library operation starts with no connection in use and every library
\* object idle
InitIdle == InitNet /\ InitLib

\* one getEvents call on a MultiClient
NextMulti ==
    \/ \E ids \in SUBSET MultiIds, order \in Shuffles : GetEventsStart(ids, order)
    \/ GetEventsQuery
    \/ GetEventsReturn

MultiSpec == InitIdle /\ [][NextMulti]_vars

\* the workers of #copyEventRefs publishing events
NextCopy ==
    \/ \E w \in 1..Parallel, id \in EventIdPool, destOpen \in BOOLEAN :
          CollectorTryPublish(w, id, destOpen)
    \/ \E w \in 1..Parallel : CollectorPublished(w)

CopySpec == InitIdle /\ [][NextCopy]_vars

\* the Collector's client cache
NextCache ==
    \/ \E url \in Urls : GetClient(url)
    \/ \E url \in Urls : ClientCloses(url)

CacheSpec == InitIdle /\ [][NextCache]_vars

\* one run of the Collector
NextRun ==
    \/ \E fetchMine, fetchFollows \in BOOLEAN : RunStart(fetchMine, fetchFollows)
    \/ /\ run.pc = "copyProfile"
       /\ \E found \in BOOLEAN, outcome \in Outcomes : RunCopyProfile(found, outcome)
    \/ \E found, ok \in BOOLEAN : RunCopyFollows(found, ok)
    \/ /\ run.pc = "copyMine"
       /\ \E events \in SUBSET EventsBy(Owner) :
             \E outcome \in OutcomesOf(events) : RunCopyMine(events, outcome)
    \/ \E follows \in SUBSET Followed : RunFindFollows(follows)
    \/ /\ run.pc = "copyFollowed"
       /\ \E f \in run.todo : \E events \in SUBSET EventsBy(f) :
             \E outcome \in OutcomesOf(events) : RunCopyFollowed(f, events, outcome)
    \/ /\ run.pc = "copyFollowed"
       /\ \E events \in SUBSET {e \in RunEvents : e.id \in run.eventsToCopy} :
             \E outcome \in OutcomesOf(events) : RunCopyEventRefs(events, outcome)
    \/ /\ run.pc = "copyProfileRefs"
       /\ \E pubkeys \in SUBSET run.profilesToCopy :
             \E outcome \in OutcomesOf({ProfileOf(pk) : pk \in pubkeys}) :
                RunCopyProfileRefs(pubkeys, outcome)

RunSpec == InitIdle /\ [][NextRun]_vars

\* one subscription and the calls of close() on it
NextOneSub ==
    \/ \E ws \in {"CONNECTING", "OPEN"} : OneSubStart(ws)
    \/ OneSubDispose
    \/ OneSubClientClose
    \/ OneSubRelayClosed
    \/ OneSubJob
    \/ OneSubPoll
    \/ OneSubOpen
    \/ OneSubSocketClosed

OneSubSpec == InitIdle /\ [][NextOneSub]_vars

\* one encodeFile call
NextEncode ==
    \/ /\ enc.pc = "idle"
       /\ \E size \in 0..MaxFileSize,
             maxMessageSize \in MinMessageSize..(MinMessageSize + MaxSizeExtra) :
             EncodeStart(size, maxMessageSize)
    \/ EncodePass1
    \/ EncodeMeta
    \/ EncodePass2
    \/ EncodeEnd

EncodeSpec == InitIdle /\ [][NextEncode]_vars

\* ---------------------------------------------------------------- paging against a relay
\* A relay that stores events and answers each REQ with the newest matching
\* events, at most cap of them and at most filter.limit, newest first, then EOSE.
Matching(f) == {e \in relay.store : ~f.hasUntil \/ e.created_at <= f.until}

PageSize(f) ==
    LET capped == Min(relay.cap, Cardinality(Matching(f)))
    IN  IF f.hasLimit THEN Min(f.limit, capped) ELSE capped

Pages(f) ==
    {s \in [1..PageSize(f) -> Matching(f)] :
        /\ \A i, j \in 1..PageSize(f) : i < j =>
              s[i] # s[j] /\ s[i].created_at >= s[j].created_at
        /\ \A e \in Matching(f) \ Range(s) :
              \A i \in 1..PageSize(f) : s[i].created_at >= e.created_at}

RelayAnswer ==
    /\ relay.mode = "honest"
    /\ relay.seen < Len(sent)
    /\ LET frame == sent[relay.seen + 1]
       IN  IF frame.type = "REQ"
           THEN \E page \in Pages(frame.filter) :
                   relay' = [relay EXCEPT
                       !.seen = relay.seen + 1,
                       !.wire = relay.wire
                                \o [i \in 1..Len(page) |-> MsgEvent(frame.sub, page[i])]
                                \o <<MsgEose(frame.sub)>>]
           ELSE relay' = [relay EXCEPT !.seen = relay.seen + 1]
    /\ UNCHANGED <<connVars, nmsgs, qs, auxVars>>

RelayDeliver ==
    /\ relay.wire # <<>>
    /\ OnMessage(Head(relay.wire))
    /\ relay' = [relay EXCEPT !.wire = Tail(relay.wire)]
    /\ UNCHANGED <<nmsgs, qs, auxVars>>

\* A relay that ignores the filter: any EVENT or EOSE for the current subscription.
RogueEvents == {Event(StoreIds[1], 1), Event(StoreIds[2], 2)}

RelayRogue ==
    /\ relay.mode = "rogue"
    /\ relay.rogue < MaxRogue
    /\ qs.cur > 0
    /\ \E m \in {MsgEvent(toString(qs.cur), e) : e \in RogueEvents}
                   \cup {MsgEose(toString(qs.cur))} : OnMessage(m)
    /\ relay' = [relay EXCEPT !.rogue = relay.rogue + 1]
    /\ UNCHANGED <<nmsgs, qs, auxVars>>

Stores ==
    {{Event(StoreIds[i], ts[i]) : i \in 1..k} :
        k \in 0..MaxStored, ts \in [1..MaxStored -> 1..MaxTs]}

Filters ==
    {NoFilter} \cup {[NoFilter EXCEPT !.hasLimit = TRUE, !.limit = l] : l \in 0..MaxLimit}

InitPaging ==
    /\ InitConn
    /\ InitAux
    /\ nmsgs = 0
    /\ qs = IdleQs
    /\ relay \in {[NoRelay EXCEPT !.mode = "honest", !.store = st, !.cap = c] :
                     st \in Stores, c \in 1..MaxCap}
                 \cup {[NoRelay EXCEPT !.mode = "rogue"]}

Steady(A) == A /\ UNCHANGED <<nmsgs, relay, auxVars>>

NextPaging ==
    \/ Quiet(OnOpen)
    \/ \E i \in 1..Len(sendq) : Quiet(SendResume(i))
    \/ \E f \in Filters : Steady(QSStart(f))
    \/ Steady(QSPull)
    \/ Steady(QSCloseInner)
    \/ Steady(QSNextPage)
    \/ Steady(QSFinish)
    \/ Steady(QSDrop)
    \/ RelayAnswer
    \/ RelayDeliver
    \/ RelayRogue

PagingSpec == InitPaging /\ [][NextPaging]_vars

\* ---------------------------------------------------------------- a Channel on its own
\* One Channel with a producer that sends and closes and one consumer that
\* iterates it (the Channel test of main.ts). The channel is channel[1], the
\* consumer is stream[1]; the items carry the number of their send() call.
ItemValues == {"foo", "bar"}

InitChannel ==
    /\ wsState = "CONNECTING"
    /\ closed = FALSE
    /\ listeners = <<0>>
    /\ subID = 0
    /\ subs = {}
    /\ subscription = <<>>
    /\ channel = <<NewChannel>>
    /\ stream = <<[pc |-> "open", delivered |-> <<>>, dropOpen |-> FALSE]>>
    /\ sendq = <<>>
    /\ sent = <<>>
    /\ unhandled = FALSE
    /\ pubs = <<>>
    /\ recvd = <<>>
    /\ relayClosed = {}
    /\ regAtClose = {}
    /\ sendLog = [calls |-> 0, order |-> <<>>, failed |-> 0, woke |-> 0]
    /\ handled = <<>>
    /\ garbage = {}
    /\ hooks = "quiet"
    /\ chanLog = NoChanLog
    /\ InitLib
    /\ nmsgs = 0
    /\ qs = IdleQs
    /\ relay = NoRelay

chanRest == <<wsState, closed, listeners, subID, subs, subscription, sendq, sent, unhandled,
              pubs, recvd, relayClosed, regAtClose, sendLog, handled, nmsgs, qs, relay,
              garbage, hooks, libVars>>

\* the producer calls send(v)
ChSend(v) ==
    /\ chanLog.sends < MaxSends
    /\ LET item == [v |-> v, no |-> chanLog.sends + 1]
       IN  /\ channel' = [channel EXCEPT ![1] = ChannelSend(@, item)]
           /\ chanLog' = IF ChannelSendThrows(channel[1])
                         THEN [chanLog EXCEPT !.sends = @ + 1,
                                              !.rejected = Append(@, item)]
                         ELSE [chanLog EXCEPT !.sends = @ + 1,
                                              !.accepted = Append(@, item)]
    /\ UNCHANGED <<stream, chanRest>>

\* the producer calls close()
ChClose ==
    /\ chanLog.closes < MaxCloses
    /\ channel' = [channel EXCEPT ![1] = ChannelClose(@)]
    /\ chanLog' = [chanLog EXCEPT !.closes = @ + 1]
    /\ UNCHANGED <<stream, chanRest>>

\* one turn of the consumer's for-await
ChNext ==
    /\ stream[1].pc = "open"
    /\ LET r == ChannelNext(channel[1])
       IN  /\ r.kind # "block"
           /\ channel' = [channel EXCEPT ![1] = r.chan]
           /\ stream' = IF r.kind = "item"
                        THEN [stream EXCEPT ![1].delivered = Append(@, r.item)]
                        ELSE [stream EXCEPT ![1].pc = "done"]
    /\ UNCHANGED <<chanLog, chanRest>>

NextChannel ==
    \/ \E v \in ItemValues : ChSend(v)
    \/ ChClose
    \/ ChNext

ChannelSpec == InitChannel /\ [][NextChannel]_vars

\* ================================================================ properties
PubIds == 1..Len(pubs)
StreamIds == 1..Len(stream)
ByOk(p) == pubs[p].done /\ pubs[p].by.type = "OK"

\* C1 (as claimed): a publish(e) that an OK message completed was completed by
\* an OK message whose event id is e.id.
C1_OkNamesEvent ==
    \A p \in PubIds : ByOk(p) => pubs[p].by.id = pubs[p].event.id

\* the reply's message begins with the ten characters of "duplicate:"
IsDuplicateReply(d) ==
    /\ Len(d) >= 10
    /\ \A i \in 1..10 : d[i] = DuplicatePrefix[i]

\* C2: for the OK message that completes a publish, the publish succeeds iff
\* accepted is true or the message starts with "duplicate:"; on success
\* isDuplicate tells whether the message starts with "duplicate:"; otherwise
\* the publish fails with PublishRejected carrying the relay's message.
C2_PublishOutcome ==
    \A p \in PubIds : ByOk(p) =>
        LET m == pubs[p].by
            o == pubs[p].outcome
        IN  /\ (o.threw = "none") <=> (m.accepted \/ IsDuplicateReply(m.message))
            /\ o.threw = "none" => (o.isDuplicate <=> IsDuplicateReply(m.message))
            /\ o.threw # "none" => o.threw = "PublishRejected" /\ o.message = m.message

\* the quirk: accepted = false with a duplicate: message completed a publish
C2_Witness ==
    \E p \in PubIds :
        /\ ByOk(p)
        /\ ~pubs[p].by.accepted
        /\ pubs[p].by.message = DetailDuplicate
        /\ pubs[p].outcome.threw = "none"
        /\ pubs[p].outcome.isDuplicate

\* C3: once the connection has closed, every publish that was called before
\* the close and that no OK message completed has failed with
\* ConnectionClosed; none of them is still pending.
C3_ClosedFailsPublish ==
    closed =>
        \A p \in PubIds : (~pubs[p].late /\ pubs[p].by = NoMsg) =>
            pubs[p].done /\ pubs[p].outcome.threw = "ConnectionClosed"

C3_Witness ==
    /\ closed
    /\ \E p \in PubIds : pubs[p].done /\ pubs[p].outcome.threw = "ConnectionClosed"
    /\ \E p \in PubIds : ByOk(p)

PendingSeq == SelectSeq([p \in PubIds |-> p], LAMBDA p : ~pubs[p].done)

\* C4: the listener list is the listener given at construction followed by
\* the listeners of the publish calls still pending, in call order: a publish
\* that finished has taken out its own listener and no other.
C4_ListenersFrame == listeners = <<0>> \o PendingSeq

\* a publish ended by an OK, one ended by the close, and one pending
C4_Witness ==
    /\ \E p \in PubIds : ByOk(p)
    /\ \E p \in PubIds : pubs[p].done /\ pubs[p].outcome.threw \in {"PublishRejected", "ConnectionClosed"}
    /\ \E p \in PubIds : ~pubs[p].done

\* C5: a finished tryPublish returned a result (it did not throw): hadError and
\* not published when publish failed; published, no error and publish's
\* isDuplicate when publish succeeded.
C5_TryPublish ==
    \A p \in PubIds : (pubs[p].try /\ pubs[p].done) =>
        LET o == pubs[p].outcome
            r == pubs[p].result
        IN  IF o.threw = "none"
            THEN r.published /\ ~r.hadError /\ r.isDuplicate = o.isDuplicate
            ELSE r.hadError /\ ~r.published

C5_Witness ==
    /\ \E p \in PubIds : pubs[p].try /\ pubs[p].done /\ pubs[p].outcome.threw = "PublishRejected"
    /\ \E p \in PubIds : pubs[p].try /\ pubs[p].done /\ pubs[p].outcome.threw = "none"
                         /\ pubs[p].outcome.isDuplicate

\* C6 (as claimed): against the capped relay, a querySaved without limit that
\* has finished, its consumer having iterated it to the end, yielded every
\* stored event exactly once.
C6_PagingComplete ==
    (qs.pc = "done" /\ ~qs.dropped /\ relay.mode = "honest" /\ ~qs.filter.hasLimit) =>
        /\ Range(qs.yielded) = relay.store
        /\ Len(qs.yielded) = Cardinality(relay.store)

C8_DropSendsClose ==
    \A n \in StreamIds : stream[n].dropOpen => FrameClose(toString(n)) \in Range(sent)

C8_Witness ==
    \E n \in StreamIds :
        /\ stream[n].dropOpen
        /\ Len(stream[n].delivered) >= 1
        /\ FrameReq(toString(n), NoFilter) \in Range(sent)

\* C9 (as claimed): every subscription that was registered when the
\* connection closed (close() or the socket's close event) is closed and its
\* stream's channel is closed.
C9_CloseClosesSubs ==
    \A s \in regAtClose :
        subscription[SubIndex(s)].closed /\ channel[SubIndex(s)].closed

\* C10: what the consumer of a query stream has received is a prefix of the
\* messages the relay sent to the subscription while it was open; together
\* with what waits in the channel it is all of them, and a stream that has
\* ended by itself has delivered all of them.
C10_StreamOrder ==
    \A n \in StreamIds :
        /\ IsPrefix(stream[n].delivered, recvd[n])
        /\ stream[n].pc = "open" =>
              stream[n].delivered \o channel[n].batch \o channel[n].items = recvd[n]
        /\ stream[n].pc = "done" => stream[n].delivered = recvd[n]

\* two different events were waiting in the channel and one has been delivered
C10_Witness ==
    \E n \in StreamIds :
        /\ Len(recvd[n]) = 2
        /\ recvd[n][1].type = "EVENT" /\ recvd[n][2].type = "EVENT"
        /\ recvd[n][1] # recvd[n][2]
        /\ stream[n].delivered = <<recvd[n][1]>>
        /\ channel[n].batch = <<recvd[n][2]>>

\* C11 (as claimed): the handlers of a subscription are given EOSE at most
\* once, and never after the subscription was closed.
C11_EoseOnce ==
    \A n \in 1..Len(handled) : handled[n].eose <= 1 /\ ~handled[n].late


\* C12 (as claimed): frames are written to the socket in the order of the
\* #send calls that carried them.
C12_SendOrder ==
    \A i, j \in 1..Len(sendLog.order) : i < j => sendLog.order[i] < sendLog.order[j]


\* C13: subscription ids are issued in strictly increasing order and never
\* again (every issued id is at most the counter, from which the next one is
\* made), and no two subscriptions in the registry share an id.
C13_SubIds ==
    /\ \A i, j \in 1..Len(subscription) :
          i < j => SubIndex(subscription[i].id) < SubIndex(subscription[j].id)
    /\ \A n \in 1..Len(subscription) : SubIndex(subscription[n].id) <= subID
    /\ \A s \in subs : Cardinality({n \in 1..Len(subscription) : subscription[n].id = s}) = 1

\* the first subscription has left the registry and a second one is in it
C13_Witness ==
    /\ Len(subscription) = 2
    /\ subscription[1].closed
    /\ subs = {subscription[2].id}


\* C14: whatever the interleaving of the producer's sends and close with
\* the consumer, what the consumer has received is a prefix of the accepted
\* items in send order; while it iterates, every accepted item is delivered
\* or still waits in the channel; and the end of the stream comes only on a
\* closed channel and after every accepted item was delivered.
C14_ChannelDelivers ==
    LET c == channel[1]
        d == stream[1].delivered
    IN  /\ IsPrefix(d, chanLog.accepted)
        /\ stream[1].pc = "open" => d \o c.batch \o c.items = chanLog.accepted
        /\ stream[1].pc = "done" => c.closed /\ d = chanLog.accepted

\* three items were sent, the channel was closed and the stream has ended
C14_Witness ==
    /\ stream[1].pc = "done"
    /\ Len(stream[1].delivered) >= 3
    /\ chanLog.closes >= 1

\* C15: send() on a closed channel throws, leaves the channel as it was, and
\* its item is never delivered; close() on a closed channel changes neither
\* the buffered items, the closed flag nor what the consumer gets next.
C15_ClosedChannel ==
    /\ [](\A r \in Range(chanLog.rejected) :
             r \notin Range(stream[1].delivered \o channel[1].batch \o channel[1].items))
    /\ [][/\ chanLog'.sends > chanLog.sends /\ channel[1].closed =>
               /\ Len(chanLog'.rejected) = Len(chanLog.rejected) + 1
               /\ chanLog'.accepted = chanLog.accepted
               /\ channel' = channel
          /\ chanLog'.closes > chanLog.closes /\ channel[1].closed =>
               /\ channel'[1] = [channel[1] EXCEPT !.future = TRUE]
               /\ ChannelNext(channel'[1]).kind = ChannelNext(channel[1]).kind
               /\ stream' = stream]_vars

\* a send was rejected, the channel was closed twice and the stream has ended
C15_Witness ==
    /\ chanLog.rejected # <<>>
    /\ chanLog.closes >= 2
    /\ chanLog.accepted # <<>>
    /\ stream[1].pc = "done"


\* the CLOSE frames naming s that were written or wait for the socket to open
CloseFrames(s) ==
    Cardinality({i \in 1..Len(sent) : sent[i] = FrameClose(s)})
  + Cardinality({i \in 1..Len(sendq) : sendq[i].frame = FrameClose(s)})

\* C16: once the relay has sent CLOSED for a registered subscription, its id
\* is not in the registry, the subscription is closed, its stream's channel
\* is closed so that the consumer's next turns reach the end of the stream,
\* and no step afterwards (the stream's own close among them) issues a CLOSE
\* frame naming it.
C16_RelayClosed ==
    /\ [](\A s \in relayClosed :
             /\ s \notin subs
             /\ subscription[SubIndex(s)].closed
             /\ channel[SubIndex(s)].closed
             /\ stream[SubIndex(s)].pc = "open" =>
                   ChannelNext(channel[SubIndex(s)]).kind # "block")
    /\ [][\A s \in relayClosed : CloseFrames(s)' = CloseFrames(s)]_vars

\* a stream ended by the relay's CLOSED has closed itself on an OPEN socket
C16_Witness ==
    \E n \in StreamIds :
        /\ subscription[n].id \in relayClosed
        /\ stream[n].pc = "done"
        /\ wsState = "OPEN"
        /\ FrameReq(subscription[n].id, NoFilter) \in Range(sent)
        /\ FrameClose(subscription[n].id) \notin Range(sent)


\* C17: nothing is written while the socket is CONNECTING and a send called
\* then waits; frames are written only on an OPEN socket, and a waiting send
\* that wakes on an OPEN socket writes its frame; a send fails only on a
\* CLOSING or CLOSED socket, whether it was called then or woke then, and a
\* failing send writes nothing. Every send is waiting, written or failed.
C17_SendByState ==
    /\ [](wsState = "CONNECTING" => sent = <<>> /\ sendLog.failed = 0)
    /\ [](sendLog.calls = Len(sendq) + Len(sent) + sendLog.failed)
    /\ [][/\ sent' # sent => wsState = "OPEN"
          /\ sendLog'.calls > sendLog.calls /\ wsState = "CONNECTING" /\ wsState' = wsState =>
                Len(sendq') = Len(sendq) + 1
          /\ Len(sendq') < Len(sendq) /\ wsState = "OPEN" =>
                \E i \in 1..Len(sendq) :
                    sendq' = RemoveAt(sendq, i) /\ sent' = Append(sent, sendq[i].frame)
          /\ Len(sendq') < Len(sendq) /\ wsState # "OPEN" =>
                sendLog'.failed = sendLog.failed + 1
          /\ sendLog'.failed > sendLog.failed =>
                wsState' \in {"CLOSING", "CLOSED"} /\ sent' = sent
          /\ sendLog'.calls > sendLog.calls /\ wsState \in {"CLOSING", "CLOSED"} =>
                /\ sendLog'.failed - sendLog.failed = sendLog'.calls - sendLog.calls
                /\ sendq' = sendq]_vars

\* a send that waited for the socket was written and another send failed
C17_Witness ==
    /\ sendLog.woke >= 1
    /\ sendLog.failed >= 1
    /\ sent # <<>>


\* C18 (as claimed): a publish called after the socket has closed has failed
\* to its caller by the end of the turn of the call; it is not left pending.
C18_ClosedCallsFail ==
    \A p \in PubIds : pubs[p].late => pubs[p].done


\* C19 (as claimed): once a frame that does not decode has arrived, the
\* connection is closing or closed.
C19_GarbageCloses ==
    garbage # {} => wsState \in {"CLOSING", "CLOSED"}


\* C20: with a listener whose hooks throw first in the list, every publish
\* listener that was in the list when an OK message was broadcast got it (a
\* pending publish has seen none, a publish resolved by an OK has seen one),
\* every publish listener in the list at the close event got it, and each
\* subscription still holds, delivered or waiting, every message sent to it,
\* after any number of earlier messages.
C20_ThrowingListener ==
    /\ \A p \in PubIds :
          /\ Pending(p) => pubs[p].oks = 0
          /\ ByOk(p) => pubs[p].oks = 1
          /\ closed /\ ~pubs[p].late => pubs[p].done
    /\ \A n \in StreamIds :
          stream[n].pc = "open" =>
              stream[n].delivered \o channel[n].batch \o channel[n].items = recvd[n]

\* the hooks of the first listener throw; a publish was resolved by an OK
\* message and a subscription's consumer got a message
C20_Witness ==
    /\ hooks = "throws"
    /\ listeners[1] = 0
    /\ nmsgs >= 2
    /\ \E p \in PubIds : ByOk(p)
    /\ \E n \in StreamIds : stream[n].delivered # <<>>

\* close() is called on a connection that was not closed before
LocalClose == wsState \in {"CONNECTING", "OPEN"} /\ wsState' = "CLOSING"

CountsOf(n) ==
    LET cs == SelectSeq(recvd[n], LAMBDA m : m.type = "COUNT")
    IN  [i \in 1..Len(cs) |-> cs[i].count]

\* the subscription of stream n has ended: the relay closed it or the
\* connection closed while it was registered
SubEnded(n) == subscription[n].id \in relayClosed \cup regAtClose

\* C21 (as claimed): a queryCount that returned gave the count of the first
\* COUNT message of its subscription; one that threw had got no COUNT; and a
\* queryCount whose subscription has ended is over or able to take its next
\* turn, which ends it.
C21_CountResult ==
    \A n \in StreamIds :
        /\ stream[n].pc = "returned" =>
              CountsOf(n) # <<>> /\ stream[n].count = CountsOf(n)[1]
        /\ stream[n].pc = "threw" => CountsOf(n) = <<>> /\ SubEnded(n)
        /\ SubEnded(n) /\ stream[n].pc = "open" =>
              ChannelNext(channel[n]).kind # "block"


\* C24: getEvents never ends with an error; a client that failed, like one
\* that answered, is passed and the next client is asked, until nothing
\* remains to be found or every client was asked; and the map it returns
\* has every requested id that a client that did not fail returned.
C24_GetEvents ==
    /\ multi.pc # "threw"
    /\ multi.pc = "loop" => Len(multi.log) = multi.idx - 1
    /\ multi.pc = "done" =>
          /\ \A i \in 1..Len(multi.log) :
                ~multi.log[i].threw =>
                    (multi.log[i].events \cap multi.requested) \subseteq multi.found
          /\ Len(multi.log) = Len(multi.order) \/ multi.requested \subseteq multi.found

\* a client failed and a client asked after it returned a requested event
C24_Witness ==
    /\ multi.pc = "done"
    /\ \E i, j \in 1..Len(multi.log) :
          /\ i < j
          /\ multi.log[i].threw
          /\ ~multi.log[j].threw
          /\ multi.log[j].events \cap multi.requested # {}


\* C22: however the workers interleave, dest.tryPublish is called at most
\* once for an event id, and an id is in #copiedEvents from the moment its
\* publish attempt begins; every other call for the id is answered from the
\* set.
C22_PublishOnce ==
    /\ \A i, j \in 1..Len(copier.attempts) :
          i # j => copier.attempts[i] # copier.attempts[j]
    /\ Range(copier.attempts) \subseteq copier.copiedEvents
    /\ \A w \in 1..Parallel :
          copier.workers[w] \in EventIdPool => copier.workers[w] \in copier.copiedEvents
    /\ \A i \in 1..Len(copier.skipped) : copier.skipped[i].id \in copier.copiedEvents

\* a worker asked for an event while another worker was still publishing it
C22_Witness ==
    /\ \E i \in 1..Len(copier.skipped) : copier.skipped[i].racing
    /\ \E v, w \in 1..Parallel :
          /\ copier.workers[v] \in EventIdPool
          /\ copier.workers[w] \in EventIdPool
          /\ copier.workers[v] # copier.workers[w]


\* C23 (as claimed): a use of a URL whose cached client has closed gets a
\* new client, and then the cache holds a client that has not closed.
C23_CacheRenews ==
    \A i \in 1..Len(cache.uses) :
        cache.uses[i].found = "closed" => cache.uses[i].result = "new"


\* C25 (as claimed): in a run with fetchMine false the owner's events are
\* neither asked of the sources nor published, and in a run with
\* fetchFollows false no followed pubkey's events are.
C25_FlagsSkip ==
    /\ ~run.fetchMine => Copied(Owner, "events") \notin run.queried \cup run.published
    /\ ~run.fetchFollows =>
          \A f \in Followed : Copied(f, "events") \notin run.queried \cup run.published


\* ---- encodeFile ----

\* the chunk events among what encodeFile has yielded
ChunksOut == SubSeq(enc.out, 2, Len(enc.out))

RECURSIVE SumSizes(_)
SumSizes(chunks) ==
    IF chunks = <<>> THEN 0
    ELSE (Head(chunks).end - Head(chunks).start) + SumSizes(Tail(chunks))

\* C26: encodeFile yields the kind-1065 metadata event first and nothing
\* before it, and after it only kind-1064 chunk events, each starting in the
\* file where the one before ended, the first at byte 0, the last ending at
\* the end of the file.
C26_MetaThenChunks ==
    /\ enc.pc \in {"idle", "pass1"} => enc.out = <<>>
    /\ enc.pc \in {"pass2", "done"} =>
          /\ Len(enc.out) >= 1
          /\ enc.out[1].kind = KindMetadata
          /\ \A i \in 2..Len(enc.out) :
                /\ enc.out[i].kind = KindContents
                /\ enc.out[i].start = (IF i = 2 THEN 0 ELSE enc.out[i - 1].end)
                /\ enc.out[i].start < enc.out[i].end
    /\ enc.pc = "done" /\ enc.size > 0 => enc.out[Len(enc.out)].end = enc.size

C26_Witness ==
    /\ enc.pc = "done"
    /\ Len(enc.out) >= 4
    /\ enc.out[1].kind = KindMetadata
    /\ enc.out[4].kind = KindContents

\* C27: with a deterministic signer and an unchanged blob, the e tags of the
\* metadata event are, in order, the ids of the chunk events yielded after it:
\* the i-th chunk yielded carries the id of the i-th e tag, and when
\* encodeFile is done there are as many chunks as e tags.
C27_TagsAreChunkIds ==
    enc.pc \in {"pass2", "done"} =>
        /\ \A i \in 1..Len(ChunksOut) :
              /\ i <= Len(enc.out[1].etags)
              /\ ChunksOut[i].id = enc.out[1].etags[i]
        /\ enc.pc = "done" => Len(ChunksOut) = Len(enc.out[1].etags)

C27_Witness ==
    /\ enc.pc = "done"
    /\ Len(enc.out[1].etags) >= 3
    /\ enc.out[1].etags[1] # enc.out[1].etags[3]
    /\ ChunksOut[3].id = enc.out[1].etags[3]

\* C28: every event encodeFile yields, the metadata event and the chunk
\* events, has a JSON length of at most maxMessageSize.
C28_EventsFit ==
    \A i \in 1..Len(enc.out) : enc.out[i].jsonLength <= enc.max

\* C29: blockSize is the largest multiple of 3 that is at most
\* (maxMessageSize - 345) * 3 / 4, and the chunks partition the file: there
\* are ceil(size / blockSize) of them, each but the last of exactly blockSize
\* bytes, the last of 1..blockSize bytes, their sizes sum to the file size,
\* and an empty file yields no chunk.
C29_ChunksPartition ==
    /\ enc.pc # "idle" =>
          /\ enc.blockSize % 3 = 0
          /\ 4 * enc.blockSize <= 3 * (enc.max - 345)
          /\ 4 * (enc.blockSize + 3) > 3 * (enc.max - 345)
    /\ enc.pc = "done" =>
          LET n == Len(ChunksOut)
              sizeOf(i) == ChunksOut[i].end - ChunksOut[i].start
          IN  /\ n * enc.blockSize >= enc.size
              /\ (n > 0 => (n - 1) * enc.blockSize < enc.size)
              /\ \A i \in 1..(n - 1) : sizeOf(i) = enc.blockSize
              /\ (n > 0 => sizeOf(n) \in 1..enc.blockSize)
              /\ SumSizes(ChunksOut) = enc.size
              /\ (enc.size = 0 => n = 0)

C29_Witness ==
    /\ enc.pc = "done"
    /\ Len(ChunksOut) >= 3
    /\ ChunksOut[Len(ChunksOut)].end - ChunksOut[Len(ChunksOut)].start < enc.blockSize
    /\ ChunksOut[1].end - ChunksOut[1].start = enc.blockSize


\* ---- closing a subscription ----

\* the #send of a CLOSE frame for subscription n is still polling
ClosePending(n) ==
    \E i \in 1..Len(sendq) : sendq[i].frame = FrameClose(subscription[n].id)

\* C34 (as claimed): once close() has been called on a subscription and its
\* #closeSubscription has settled, the subscription's id is not in the
\* registry, whatever the socket's state was at the call.
C34_ClosedUnregistered ==
    \A n \in 1..Len(subscription) :
        (subscription[n].closed /\ ~ClosePending(n)) => subscription[n].id \notin subs


\* C33: however many times close() is called on one subscription, by the
\* disposal of its query stream, by Client.close(), or both, back to back or
\* not, at most one CLOSE frame naming it is written to the socket.
C33_CloseOnce == oneSub.frames <= 1

\* close() was called again after the Future was resolved and before its
\* resolved flag was set, and one CLOSE frame was written
C33_Witness ==
    /\ oneSub.lagCalls >= 1
    /\ oneSub.disposed
    /\ oneSub.clientCalls >= 1
    /\ oneSub.frames = 1
    /\ oneSub.jobs = <<>>


\* the requested ids that the clients asked before the i-th query returned
FoundBefore(i) ==
    UNION {multi.log[j].events : j \in {k \in 1..(i - 1) : ~multi.log[k].threw}}

\* C36: each query of getEvents asks for exactly the requested ids that no
\* earlier client returned, with a limit equal to their number, and no client
\* is queried when nothing remains to be found.
C36_AsksRemaining ==
    \A i \in 1..Len(multi.log) :
        /\ multi.log[i].filter.ids = multi.requested \ FoundBefore(i)
        /\ multi.log[i].filter.limit = Cardinality(multi.log[i].filter.ids)
        /\ multi.log[i].filter.ids # {}

\* the second client was asked for less than the first, and the last client
\* was not asked because everything had been found
C36_Witness ==
    /\ multi.pc = "done"
    /\ Len(multi.log) >= 2
    /\ Len(multi.log) < Len(multi.order)
    /\ multi.log[2].filter.limit < multi.log[1].filter.limit
    /\ multi.requested \subseteq multi.found


\* what the consumer of stream n has got or can still get
Yieldable(n) == stream[n].delivered \o channel[n].batch \o channel[n].items

RefsSaved(event) ==
    /\ event.etags \subseteq run.savedEvents
    /\ event.ptags \subseteq run.savedProfiles
    /\ event.pubkey \in run.savedProfiles

\* C35 (as claimed): every event that #copyUserEvents has published to the
\* destination (the destination accepted it, as new or as a duplicate) has
\* its e tags recorded as event refs, and its p tags and its pubkey as
\* profile refs.
C35_RefsOfPublished ==
    \A l \in run.userLog : l.outcome \in {"new", "duplicate"} => RefsSaved(l.event)

\* C35 (amended): the same for every event that the destination accepted as
\* new.
C35_RefsOfNew ==
    \A l \in run.userLog : l.outcome = "new" => RefsSaved(l.event)

\* a note of a followed pubkey was accepted as new, the owner's note was a
\* duplicate
C35_Witness ==
    /\ [event |-> NoteOf("f1"), outcome |-> "new"] \in run.userLog
    /\ [event |-> NoteOf(Owner), outcome |-> "duplicate"] \in run.userLog
    /\ "f1" \in run.profilesToCopy
    /\ EvReferred.id \in run.eventsToCopy

\* C40 (as claimed): no event id is given to the destination twice in one
\* run, in whatever phase.
C40_SentOnce ==
    \A i, j \in 1..Len(run.sentToDest) :
        i # j => run.sentToDest[i] # run.sentToDest[j]


\* ---------------------------------------------------------------- paging against a relay
\* that honours the filter and its cap and delivers each page in any order
Orders(page) ==
    {s \in [1..Len(page) -> Range(page)] : \A i, j \in 1..Len(page) : i < j => s[i] # s[j]}

RelayAnswerAnyOrder ==
    /\ relay.mode = "unordered"
    /\ relay.seen < Len(sent)
    /\ LET frame == sent[relay.seen + 1]
       IN  IF frame.type = "REQ"
           THEN \E newestFirst \in Pages(frame.filter) : \E page \in Orders(newestFirst) :
                   relay' = [relay EXCEPT
                       !.seen = relay.seen + 1,
                       !.wire = relay.wire
                                \o [i \in 1..Len(page) |-> MsgEvent(frame.sub, page[i])]
                                \o <<MsgEose(frame.sub)>>]
           ELSE relay' = [relay EXCEPT !.seen = relay.seen + 1]
    /\ UNCHANGED <<connVars, nmsgs, qs, auxVars>>

\* the stores: event i is at least as new as event i + 1
ShuffledStores ==
    {{Event(StoreIds[i], ts[i]) : i \in 1..k} :
        k \in 0..MaxShuffled,
        ts \in {t \in [1..MaxShuffled -> 1..MaxShuffledTs] :
                   \A i \in 1..(MaxShuffled - 1) : t[i] >= t[i + 1]}}

InitShuffle ==
    /\ InitConn
    /\ InitAux
    /\ nmsgs = 0
    /\ qs = IdleQs
    /\ relay \in {[NoRelay EXCEPT !.mode = "unordered", !.store = st, !.cap = MaxCap] :
                     st \in ShuffledStores}

NextShuffle ==
    \/ Quiet(OnOpen)
    \/ \E i \in 1..Len(sendq) : Quiet(SendResume(i))
    \/ \E f \in Filters : Steady(QSStart(f))
    \/ Steady(QSPull)
    \/ Steady(QSCloseInner)
    \/ Steady(QSNextPage)
    \/ Steady(QSFinish)
    \/ Steady(QSDrop)
    \/ RelayAnswerAnyOrder
    \/ RelayDeliver

ShuffleSpec == InitShuffle /\ [][NextShuffle]_vars

\* the smallest element of a non-empty sequence of numbers
Earliest(batch) == CHOOSE t \in Range(batch) : \A u \in Range(batch) : t <= u

\* the REQ frames of the current query(), sent or waiting for the socket
CurrentReqs ==
    {f \in Range(sent) \cup {sendq[i].frame : i \in 1..Len(sendq)} :
        f.type = "REQ" /\ f.sub = toString(qs.cur)}

\* C31 (as claimed): the REQ of every page after the first carries
\* until = (the smallest created_at of the batch before) - 1, whatever the
\* order the relay delivered that batch in.
C31_UntilFromMin ==
    qs.pages >= 2 =>
        \A f \in CurrentReqs : f.filter.hasUntil /\ f.filter.until = Earliest(qs.prevBatch) - 1


\* the EVENT messages query() number n has handed to its consumer
Delivered(n) == Len(SelectSeq(stream[n].delivered, LAMBDA m : m.type = "EVENT"))

\* the REQ frames given to #send so far, written or waiting for the socket
ReqCount ==
    Cardinality({i \in 1..Len(sent) : sent[i].type = "REQ"})
    + Cardinality({i \in 1..Len(sendq) : sendq[i].frame.type = "REQ"})

\* the previous batch had more than one event and fewer events than the
\* requested limit have been yielded
MorePagesWanted == Delivered(qs.cur) > 1 /\ Len(qs.yielded) < qs.requestedLimit

ShuffleLiveSpec ==
    /\ InitShuffle
    /\ [][NextShuffle]_vars
    /\ WF_vars(Quiet(OnOpen))
    /\ WF_vars(\E i \in 1..Len(sendq) : Quiet(SendResume(i)))
    /\ WF_vars(Steady(QSPull))
    /\ WF_vars(Steady(QSCloseInner))
    /\ WF_vars(Steady(QSNextPage))
    /\ WF_vars(Steady(QSFinish))
    /\ WF_vars(RelayAnswerAnyOrder)
    /\ WF_vars(RelayDeliver)

\* C37: against a relay that stores finitely many events, honours until and
\* ends every answer with EOSE, the until of each REQ after the second is
\* strictly below the until of the REQ before it, and a querySaved that was
\* called comes to its end.
C37_Terminates ==
    /\ [][(qs.pages >= 2 /\ qs'.pages = qs.pages + 1) => qs'.until < qs.until]_vars
    /\ (qs.pc # "idle") ~> (qs.pc = "done")

\* querySaved came to its end by itself after three REQs
C37_Witness ==
    /\ qs.pc = "done"
    /\ ~qs.dropped
    /\ qs.pages >= 3
    /\ ReqCount = qs.pages


\* the subscription of page n (query() number n of the run)
PageSub(n) == subscription[n].id

\* C39: when querySaved has finished on an OPEN socket (pages exhausted, limit
\* reached or consumer gone), none of its subscriptions is in the registry;
\* the CLOSE of each page's subscription is written before the REQ of the next
\* page, and when the next page is asked for the page before is closed and
\* out of the registry.
C39_PagesClosed ==
    /\ [](/\ (qs.pc = "done" /\ wsState = "OPEN") =>
                \A n \in 1..qs.cur : PageSub(n) \notin subs
          /\ \A n \in 2..qs.cur : \A j \in 1..Len(sent) :
                (sent[j].type = "REQ" /\ sent[j].sub = PageSub(n)) =>
                    \E i \in 1..(j - 1) : sent[i] = FrameClose(PageSub(n - 1)))
    /\ [][(qs.pc = "while" /\ qs'.pc = "more") =>
              (/\ subscription[qs.cur].closed
               /\ PageSub(qs.cur) \notin subs
               /\ subs' = {subscription'[qs'.cur].id})]_vars

\* the consumer left during the second page, on an OPEN socket
C39_Witness ==
    /\ qs.pc = "done"
    /\ qs.dropped
    /\ qs.pages = 2
    /\ wsState = "OPEN"
    /\ subs = {}
    /\ \E i, j \in 1..Len(sent) : i < j /\ sent[i] = FrameClose(PageSub(1))
                                        /\ sent[j] = FrameClose(PageSub(2))

====
